---------------------------- MODULE Spec2Model ----------------------------
(***************************************************************************)
(* A model of the MHTI scrape back end.                                    *)
(*                                                                         *)
(*   Spec        the manual-job queue and its background worker            *)
(*               (server/services/manual_job_service.py) together with the *)
(*               directory scan it dispatches from                         *)
(*               (server/services/file_service.py);                        *)
(*   FairSpec    Spec with weak fairness on the worker's own steps (the    *)
(*               event loop runs every task that is ready);                *)
(*   SpecScrape  one run of ScraperService.scrape_file                     *)
(*               (server/services/scraper_service.py).                     *)
(*                                                                         *)
(* The worker is an asyncio task: every action below is the code between   *)
(* two suspension points of one task, which the single-threaded event loop *)
(* runs without interleaving.                                              *)
(***************************************************************************)
EXTENDS Integers, Sequences, FiniteSets, TLC

(* ------------------------------ bounds -------------------------------- *)

\* create_job calls made in one behaviour
MaxJobs == 2
\* entries below a scanned directory
MaxFiles == 2
\* events of the environment in one behaviour: Task.cancel() calls on a
\* worker task, exceptions raised by the database layer, delete_jobs calls
MaxEvents == 1

(* --------------------------- the job table ---------------------------- *)

\* Python's None, for the optional integer columns and arguments
None == -1
\* Python's None, for the optional text column and argument
NoText == "None"

PENDING == "pending"
RUNNING == "running"
SUCCESS == "success"
FAILED == "failed"
CANCELLED == "cancelled"

ManualJobStatus == {PENDING, RUNNING, SUCCESS, FAILED, CANCELLED}

\* a slot of the table that holds no row (never inserted, or deleted)
NoRow == [status |-> "absent"]

JobIds == 1..MaxJobs

\* the row INSERTed by create_job: status pending, the counters at their
\* column defaults, no timestamps but created_at (not modelled)
ManualJob(scan_path) ==
    [status |-> PENDING, scan_path |-> scan_path, started_at |-> None,
     finished_at |-> None, success_count |-> 0, total_count |-> 0,
     error_message |-> NoText]

\* UPDATE manual_jobs SET status = ?, <every argument that is not None>
\* WHERE id = ?  -- a row that is not there is left not there
update_job_status(rs, job_id, status, started_at, finished_at, success_count, total_count, error_message) ==
    IF rs[job_id] = NoRow THEN rs
    ELSE [rs EXCEPT ![job_id] =
            [status |-> status,
             scan_path |-> @.scan_path,
             started_at |-> IF started_at # None THEN started_at ELSE @.started_at,
             finished_at |-> IF finished_at # None THEN finished_at ELSE @.finished_at,
             success_count |-> IF success_count # None THEN success_count ELSE @.success_count,
             total_count |-> IF total_count # None THEN total_count ELSE @.total_count,
             error_message |-> IF error_message # NoText THEN error_message ELSE @.error_message]]

\* the success update with success_count left out
SuccessNoCount(rs, job_id, now, total_count) ==
    update_job_status(rs, job_id, SUCCESS, None, now, None, None, NoText)

\* the total_count update passing the wrong status
TotalAsPending(rs, job_id, total_count) ==
    update_job_status(rs, job_id, PENDING, None, None, None, total_count, NoText)

\* the five calls of update_job_status made by _execute_job
RunningUpdate(rs, job_id, now) ==
    update_job_status(rs, job_id, RUNNING, now, None, None, None, NoText)

TotalUpdate(rs, job_id, total_count) ==
    update_job_status(rs, job_id, RUNNING, None, None, None, total_count, NoText)

EmptyUpdate(rs, job_id, now) ==
    update_job_status(rs, job_id, SUCCESS, None, now, None, None, "no video file found")

SuccessUpdate(rs, job_id, now, total_count) ==
    update_job_status(rs, job_id, SUCCESS, None, now, total_count, None, NoText)

FailedUpdate(rs, job_id, now, err) ==
    update_job_status(rs, job_id, FAILED, None, now, None, None, err)

(* --------------------------- the directory ---------------------------- *)

\* what rglob("*") can yield below a scanned folder: a video, a subtitle
\* whose stem carries an SxxEyy marker, a subtitle without one, a sidecar
\* of another kind, and a sub-directory whose name ends in ".mkv"
Entries ==
    { [is_file |-> TRUE,  ext |-> ".mkv", episode |-> TRUE],
      [is_file |-> TRUE,  ext |-> ".ass", episode |-> TRUE],
      [is_file |-> TRUE,  ext |-> ".ass", episode |-> FALSE],
      [is_file |-> TRUE,  ext |-> ".nfo", episode |-> FALSE],
      [is_file |-> FALSE, ext |-> ".mkv", episode |-> FALSE] }

SUPPORTED_VIDEO_EXTENSIONS ==
    {".mp4", ".mkv", ".avi", ".wmv", ".mov", ".flv", ".rmvb", ".ts", ".m2ts",
     ".bdmv", ".webm", ".3gp", ".mpg", ".mpeg", ".vob", ".iso"}

SUPPORTED_SUBTITLE_EXTENSIONS_FOR_SCAN == {".ass", ".ssa", ".srt", ".vtt", ".sub"}

\* _SUBTITLE_EPISODE_RE.search(item.stem)
SubtitleEpisodeMatch(item) == item.episode

IsVideo(item) == item.is_file /\ item.ext \in SUPPORTED_VIDEO_EXTENSIONS

\* the test with the SxxEyy condition on subtitles left out
ScanAnySubtitle(item) ==
    /\ item.is_file
    /\ \/ item.ext \in SUPPORTED_VIDEO_EXTENSIONS
       \/ item.ext \in SUPPORTED_SUBTITLE_EXTENSIONS_FOR_SCAN

\* the test of _scan_recursive's loop body: is the item appended?
ScanIncludes(item) ==
    /\ item.is_file
    /\ \/ item.ext \in SUPPORTED_VIDEO_EXTENSIONS
       \/ /\ item.ext \in SUPPORTED_SUBTITLE_EXTENSIONS_FOR_SCAN
          /\ SubtitleEpisodeMatch(item)

\* the positions 1..Len(walk) of the walk that _scan_recursive keeps, in
\* walk order; a position stands for the path of the item
RECURSIVE ScanFrom(_, _)
ScanFrom(walk, i) ==
    IF i > Len(walk) THEN <<>>
    ELSE (IF ScanIncludes(walk[i]) THEN <<i>> ELSE <<>>) \o ScanFrom(walk, i + 1)

_scan_recursive(walk) == ScanFrom(walk, 1)

Walks == UNION { [1..n -> Entries] : n \in 0..MaxFiles }

\* the walks of folders that hold video files only
VideoWalks ==
    UNION { [1..n -> {e \in Entries : IsVideo(e)}] : n \in 0..MaxFiles }

\* how Path(scan_path) looks to _execute_job
ScanPathKinds == {"file", "dir", "missing"}

\* the path of scan_path itself in a job's file list (scan_path is a file)
SelfPath == 0

\* a path string is the sequence of its components below the root; "NUL"
\* is a component that holds the character \x00
PlainPath == <<"media", "shows">>

\* job.scan_path: the string and what Path(scan_path) finds on disk
ScanPath(raw, kind) == [raw |-> raw, kind |-> kind]

\* no job loaded
NoPath == ScanPath(<<>>, "")

\* dangerous_patterns of _sanitize_path
DANGEROUS_PATTERNS == {"..", "~", "NUL"}

\* BLOCKED_PATHS
BLOCKED_PATHS ==
    { <<"etc">>, <<"var">>, <<"usr">>, <<"bin">>, <<"sbin">>, <<"boot">>,
      <<"root">>, <<"proc">>, <<"sys">>, <<"C:", "Windows">>,
      <<"C:", "Program Files">>, <<"C:", "Program Files (x86)">> }

\* a symbolic link on disk and the directory it points to
SymlinkName == "link"
SymlinkTarget == <<"etc">>

\* Path(path_str).resolve(): the path with symbolic links followed
RECURSIVE Resolve(_)
Resolve(raw) ==
    IF raw = <<>> THEN <<>>
    ELSE LET front == Resolve(SubSeq(raw, 1, Len(raw) - 1))
             last == raw[Len(raw)]
         IN  IF last = SymlinkName THEN SymlinkTarget ELSE Append(front, last)

\* str(path).startswith(blocked), on whole components
StartsWith(path, blocked) ==
    /\ Len(blocked) <= Len(path)
    /\ SubSeq(path, 1, Len(blocked)) = blocked

\* _sanitize_path(path_str): the exception it raises (NoText for none) and
\* the path it returns
_sanitize_path(raw) ==
    IF \E k \in 1..Len(raw) : raw[k] \in DANGEROUS_PATTERNS
    THEN [error |-> "InvalidFolderError", path |-> <<>>]
    ELSE IF \E blocked \in BLOCKED_PATHS : StartsWith(Resolve(raw), blocked)
    THEN [error |-> "PermissionDeniedError", path |-> <<>>]
    ELSE [error |-> NoText, path |-> Resolve(raw)]

\* the scan paths jobs are created with
RawPaths ==
    { PlainPath, <<"etc", "shows">>, <<"media", "..", "etc">>,
      <<"~", "shows">>, <<"media", "NUL">>, <<"media", SymlinkName>> }

\* a string with \x00 in it names nothing on disk
JobPaths ==
    { ScanPath(raw, kind) : raw \in RawPaths, kind \in ScanPathKinds } \
    { ScanPath(<<"media", "NUL">>, kind) : kind \in {"file", "dir"} }

(* ---------------------------- the state ------------------------------- *)

VARIABLES
    rows,         \* the manual_jobs table: job id -> row, or NoRow
    nextId,       \* the id the next INSERT gets (cursor.lastrowid)
    queue,        \* _job_queue
    worker_task,  \* _worker_task: 0 for None, else an index of workers
    workers,      \* every task made by asyncio.create_task(_job_worker())
    children,     \* the scrape_jobs table, in insertion order
    backlog,      \* does the scrape stage have child rows it has not consumed?
    fs,           \* the walk of the directory the jobs scan
    clock,        \* datetime.now(), as the number of readings so far
    events,       \* cancel calls, database exceptions and deletes so far
    taken,        \* history: the job ids in the order they were taken
    raised,       \* history: job id -> text of the last exception raised
                  \*          while the job was executed, or NoText
    scrape        \* the scrape_file run (SpecScrape)

jobVars ==
    <<rows, nextId, queue, worker_task, workers, children, backlog, fs,
      clock, events, taken, raised>>

vars == <<jobVars, scrape>>

\* a task made by asyncio.create_task(_job_worker()): suspended in
\* _job_queue.get(), nothing in hand
NewWorker ==
    [pc |-> "get", job_id |-> 0, scan_path |-> NoPath, files |-> <<>>, sent |-> 0,
     err |-> NoText, cancel |-> FALSE, logged |-> FALSE, ended |-> ""]

\* a task that has returned: why it ended and the job it had in hand then
\* are kept, nothing else
Ended(w, why) ==
    [pc |-> "done", job_id |-> w.job_id, scan_path |-> NoPath, files |-> <<>>,
     sent |-> 0, err |-> NoText, cancel |-> FALSE, logged |-> FALSE,
     ended |-> why]

Live(w) == w.pc # "done"

Executing(w) == w.pc \notin {"get", "done"}

WorkerIds == 1..Len(workers)

(* ------------------------------ create_job ---------------------------- *)

\* the condition of _ensure_worker, as the worker-per-enqueue slip would
\* have it
EnsureAlways(wt, ws) == TRUE

\* _ensure_worker: _worker_task is None or _worker_task.done()
WorkerMissing(wt, ws) == wt = 0 \/ ~Live(ws[wt])

\* create_job: the row is INSERTed with the next id and status pending,
\* then _job_queue.put(job_id), which never waits on an unbounded queue,
\* then _ensure_worker()
CreateJob(scan_path) ==
    /\ nextId <= MaxJobs
    /\ rows' = [rows EXCEPT ![nextId] = ManualJob(scan_path)]
    /\ nextId' = nextId + 1
    /\ queue' = Append(queue, nextId)
    /\ IF WorkerMissing(worker_task, workers)
       THEN /\ workers' = Append(workers, NewWorker)
            /\ worker_task' = Len(workers) + 1
       ELSE UNCHANGED <<workers, worker_task>>
    /\ UNCHANGED <<children, backlog, fs, clock, events, taken, scrape,
                   raised>>

\* delete_jobs(ids): DELETE FROM manual_jobs WHERE id IN (ids)
DeleteJobs(ids) ==
    /\ events < MaxEvents
    /\ ids # {}
    /\ \A j \in ids : rows[j] # NoRow
    /\ events' = events + 1
    /\ rows' = [j \in JobIds |-> IF j \in ids THEN NoRow ELSE rows[j]]
    /\ UNCHANGED <<nextId, queue, worker_task, workers, children, backlog,
                   fs, clock, taken, scrape,
                   raised>>

(* ------------------------------ the worker ---------------------------- *)

\* asyncio.Queue.get on a queue that holds something: the oldest id
QueueHead(q) == Head(q)

\* the slip of taking the newest id instead
QueueNewest(q) == q[Len(q)]

\* the id _job_queue.get() returns
QueueGet(q) == QueueHead(q)

QueueAfterGet(q) ==
    IF QueueGet(q) = Head(q) THEN Tail(q) ELSE SubSeq(q, 1, Len(q) - 1)

\* the worker is back at the top of its while loop with the job it had
\* behind it: get() returns at once when the queue holds an id, and the
\* task runs on into _execute_job up to its first database await;
\* otherwise the task suspends in get()
LoopAgain(w, q) ==
    IF q # <<>>
    THEN [w EXCEPT !.pc = "load", !.job_id = QueueGet(q), !.scan_path = NoPath,
                   !.files = <<>>, !.sent = 0, !.err = NoText]
    ELSE [w EXCEPT !.pc = "get", !.job_id = 0, !.scan_path = NoPath,
                   !.files = <<>>, !.sent = 0, !.err = NoText]

\* the state after such a return to the loop, for worker i
BackToLoop(i, w) ==
    /\ workers' = [workers EXCEPT ![i] = LoopAgain(w, queue)]
    /\ queue' = IF queue # <<>> THEN QueueAfterGet(queue) ELSE queue
    /\ taken' = IF queue # <<>> THEN Append(taken, QueueGet(queue)) ELSE taken

\* except Exception as e: logger.error(...) in _job_worker
LoggedError(w) == [w EXCEPT !.logged = TRUE]

\* what an exception that escapes _execute_job does to the worker task as
\* the die-on-error slip would have it: the task ends
WorkerDies(i, w) ==
    /\ workers' = [workers EXCEPT ![i] = Ended(w, "error")]
    /\ UNCHANGED <<queue, taken>>

\* what an exception that escapes _execute_job does: caught by the
\* worker's except Exception, logged, and the loop goes on
EscapeToWorker(i, w) == BackToLoop(i, LoggedError(w))

\* the worker, suspended in get(), is woken by a put and takes the id
WorkerTake(i) ==
    /\ i \in WorkerIds
    /\ workers[i].pc = "get"
    /\ ~workers[i].cancel
    /\ queue # <<>>
    /\ BackToLoop(i, workers[i])
    /\ UNCHANGED <<rows, nextId, worker_task, children, backlog, fs, clock,
                   events, scrape,
                   raised>>

\* job = await service.get_job(job_id); a missing row ends the execution,
\* an exception of the database escapes _execute_job
LoadJob(i) ==
    /\ i \in WorkerIds
    /\ workers[i].pc = "load"
    /\ ~workers[i].cancel
    /\ \/ /\ rows[workers[i].job_id] = NoRow
          /\ BackToLoop(i, workers[i])
          /\ UNCHANGED <<events, raised>>
       \/ /\ rows[workers[i].job_id] # NoRow
          /\ workers' = [workers EXCEPT ![i].pc = "mark",
                            ![i].scan_path = rows[workers[i].job_id].scan_path]
          /\ UNCHANGED <<queue, taken, events, raised>>
       \/ /\ events < MaxEvents
          /\ events' = events + 1
          /\ raised' = [raised EXCEPT ![workers[i].job_id] = "OperationalError"]
          /\ EscapeToWorker(i, workers[i])
    /\ UNCHANGED <<rows, nextId, worker_task, children, backlog, fs, clock,
                   scrape>>

\* started_at = datetime.now();
\* await service.update_job_status(job_id, RUNNING, started_at=started_at)
MarkRunning(i) ==
    /\ i \in WorkerIds
    /\ workers[i].pc = "mark"
    /\ ~workers[i].cancel
    /\ clock' = clock + 1
    /\ \/ /\ rows' = RunningUpdate(rows, workers[i].job_id, clock + 1)
          /\ workers' = [workers EXCEPT ![i].pc = "scan"]
          /\ UNCHANGED <<queue, taken, events, raised>>
       \/ /\ events < MaxEvents
          /\ events' = events + 1
          /\ raised' = [raised EXCEPT ![workers[i].job_id] = "OperationalError"]
          /\ EscapeToWorker(i, workers[i])
          /\ UNCHANGED rows
    /\ UNCHANGED <<nextId, worker_task, children, backlog, fs, scrape>>

\* the child row ScrapeJobService.create_job inserts for one file
ScrapeJobCreate(job_id, file_path) ==
    [source |-> "manual", source_id |-> job_id, file_path |-> file_path]

\* the file list of _execute_job: scan_path itself when it is a file, else
\* the paths scan_folder returns
FilesOf(kind, walk) ==
    IF kind = "file" THEN <<SelfPath>> ELSE _scan_recursive(walk)

\* the exception that ends the scan of scan_path, NoText when there is none:
\* a file is never handed to scan_folder; scan_folder sanitises the path,
\* then wants it to exist
ScanError(scan_path) ==
    IF scan_path.kind = "file" THEN NoText
    ELSE IF _sanitize_path(scan_path.raw).error # NoText
         THEN _sanitize_path(scan_path.raw).error
    ELSE IF scan_path.kind = "missing" THEN "FolderNotFoundError"
    ELSE NoText

\* the scan and the await after it: scan_folder raises for a path that is
\* not there; else total_count = len(files) is written (status running)
ScanFolder(i) ==
    /\ i \in WorkerIds
    /\ workers[i].pc = "scan"
    /\ ~workers[i].cancel
    /\ \/ /\ ScanError(workers[i].scan_path) # NoText
          /\ workers' = [workers EXCEPT ![i].pc = "fail",
                            ![i].err = ScanError(workers[i].scan_path)]
          /\ raised' = [raised EXCEPT ![workers[i].job_id] =
                                         ScanError(workers[i].scan_path)]
          /\ UNCHANGED <<rows, events>>
       \/ /\ ScanError(workers[i].scan_path) = NoText
          /\ LET files == FilesOf(workers[i].scan_path.kind, fs) IN
             \/ /\ rows' = TotalUpdate(rows, workers[i].job_id, Len(files))
                /\ workers' = [workers EXCEPT ![i].files = files,
                                  ![i].pc = IF Len(files) = 0 THEN "empty"
                                            ELSE "dispatch"]
                /\ UNCHANGED <<events, raised>>
             \/ /\ events < MaxEvents
                /\ events' = events + 1
                /\ raised' = [raised EXCEPT ![workers[i].job_id] = "OperationalError"]
                /\ workers' = [workers EXCEPT ![i].files = files,
                                  ![i].pc = "fail", ![i].err = "OperationalError"]
                /\ UNCHANGED rows
    /\ UNCHANGED <<nextId, queue, worker_task, children, backlog, fs, clock,
                   taken, scrape>>

\* total_count == 0: success with the message that no video file was found
FinishEmpty(i) ==
    /\ i \in WorkerIds
    /\ workers[i].pc = "empty"
    /\ ~workers[i].cancel
    /\ clock' = clock + 1
    /\ \/ /\ rows' = EmptyUpdate(rows, workers[i].job_id, clock + 1)
          /\ BackToLoop(i, workers[i])
          /\ UNCHANGED <<events, raised>>
       \/ /\ events < MaxEvents
          /\ events' = events + 1
          /\ raised' = [raised EXCEPT ![workers[i].job_id] = "OperationalError"]
          /\ workers' = [workers EXCEPT ![i].pc = "fail",
                                        ![i].err = "OperationalError"]
          /\ UNCHANGED <<rows, queue, taken>>
    /\ UNCHANGED <<nextId, worker_task, children, backlog, fs, scrape>>

\* one turn of "for file_path in files": the child row of the next file
Dispatch(i) ==
    /\ i \in WorkerIds
    /\ workers[i].pc = "dispatch"
    /\ ~workers[i].cancel
    /\ LET w == workers[i]
           file_path == w.files[w.sent + 1] IN
       \/ /\ children' = Append(children, ScrapeJobCreate(w.job_id, file_path))
          /\ backlog' = TRUE
          /\ workers' = [workers EXCEPT ![i].sent = w.sent + 1,
                            ![i].pc = IF w.sent + 1 = Len(w.files) THEN "finish"
                                      ELSE "dispatch"]
          /\ UNCHANGED <<events, raised>>
       \/ /\ events < MaxEvents
          /\ events' = events + 1
          /\ raised' = [raised EXCEPT ![workers[i].job_id] = "OperationalError"]
          /\ workers' = [workers EXCEPT ![i].pc = "fail",
                                        ![i].err = "OperationalError"]
          /\ UNCHANGED <<children, backlog>>
    /\ UNCHANGED <<rows, nextId, queue, worker_task, fs, clock,
                   taken, scrape>>

\* after the loop: success, finished_at = now, success_count = total_count
FinishJob(i) ==
    /\ i \in WorkerIds
    /\ workers[i].pc = "finish"
    /\ ~workers[i].cancel
    /\ clock' = clock + 1
    /\ \/ /\ rows' = SuccessUpdate(rows, workers[i].job_id, clock + 1,
                                   Len(workers[i].files))
          /\ BackToLoop(i, workers[i])
          /\ UNCHANGED <<events, raised>>
       \/ /\ events < MaxEvents
          /\ events' = events + 1
          /\ raised' = [raised EXCEPT ![workers[i].job_id] = "OperationalError"]
          /\ workers' = [workers EXCEPT ![i].pc = "fail",
                                        ![i].err = "OperationalError"]
          /\ UNCHANGED <<rows, queue, taken>>
    /\ UNCHANGED <<nextId, worker_task, children, backlog, fs, scrape>>

\* except Exception as e: failed, finished_at = now, error_message = str(e);
\* an exception of this update escapes _execute_job
FailJob(i) ==
    /\ i \in WorkerIds
    /\ workers[i].pc = "fail"
    /\ ~workers[i].cancel
    /\ clock' = clock + 1
    /\ \/ /\ rows' = FailedUpdate(rows, workers[i].job_id, clock + 1,
                                  workers[i].err)
          /\ BackToLoop(i, workers[i])
          /\ UNCHANGED <<events, raised>>
       \/ /\ events < MaxEvents
          /\ events' = events + 1
          /\ raised' = [raised EXCEPT ![workers[i].job_id] = "OperationalError"]
          /\ EscapeToWorker(i, workers[i])
          /\ UNCHANGED rows
    /\ UNCHANGED <<nextId, worker_task, children, backlog, fs, scrape>>

(* ---------------------------- cancellation ---------------------------- *)

\* Task.cancel() on a worker task that is not done: the request is
\* delivered when the task next runs
CancelWorker(i) ==
    /\ i \in WorkerIds
    /\ events < MaxEvents
    /\ Live(workers[i])
    /\ ~workers[i].cancel
    /\ events' = events + 1
    /\ workers' = [workers EXCEPT ![i].cancel = TRUE]
    /\ UNCHANGED <<rows, nextId, queue, worker_task, children, backlog, fs,
                   clock, taken, scrape,
                   raised>>

\* CancelledError is raised at the await the task is suspended in.  It is
\* a BaseException: the except Exception of _execute_job lets it through,
\* and the except asyncio.CancelledError of _job_worker breaks the loop
WorkerCancelled(i) ==
    /\ i \in WorkerIds
    /\ Live(workers[i])
    /\ workers[i].cancel
    /\ workers' = [workers EXCEPT ![i] = Ended(workers[i], "cancelled")]
    /\ UNCHANGED <<rows, nextId, queue, worker_task, children, backlog, fs,
                   clock, events, taken, scrape,
                   raised>>

(* --------------------------- the scrape stage ------------------------- *)

\* the scrape-task worker consumes the child rows on its own schedule
ScrapeStage ==
    /\ backlog
    /\ backlog' = FALSE
    /\ UNCHANGED <<rows, nextId, queue, worker_task, workers, children, fs,
                   clock, events, taken, scrape,
                   raised>>

(* --------------------------- specification ---------------------------- *)

\* the scrape_file run is not part of the job specifications
NoScrape == [pc |-> "off"]

\* the job service after import: no row, an empty queue, no worker task
JobsInit ==
    /\ rows = [j \in JobIds |-> NoRow]
    /\ nextId = 1
    /\ queue = <<>>
    /\ worker_task = 0
    /\ workers = <<>>
    /\ children = <<>>
    /\ backlog = FALSE
    /\ clock = 0
    /\ taken = <<>>
    /\ raised = [j \in JobIds |-> NoText]

Init ==
    /\ JobsInit
    /\ fs \in VideoWalks
    /\ events = 0
    /\ scrape = NoScrape

WorkerStep(i) ==
    \/ WorkerTake(i)
    \/ LoadJob(i)
    \/ MarkRunning(i)
    \/ ScanFolder(i)
    \/ FinishEmpty(i)
    \/ Dispatch(i)
    \/ FinishJob(i)
    \/ FailJob(i)
    \/ WorkerCancelled(i)

Next ==
    \/ \E kind \in ScanPathKinds : CreateJob(ScanPath(PlainPath, kind))
    \/ \E ids \in SUBSET JobIds : DeleteJobs(ids)
    \/ \E i \in 1..MaxJobs : WorkerStep(i)
    \/ \E i \in 1..MaxJobs : CancelWorker(i)
    \/ ScrapeStage

Spec == Init /\ [][Next]_vars

\* the event loop runs every task that is ready to run
FairSpec == Spec /\ \A i \in 1..MaxJobs : WF_vars(WorkerStep(i))

\* the jobs over every kind of folder content, in an environment that is
\* quiet: no cancellation, no database exception, no delete
InitScan ==
    /\ JobsInit
    /\ fs \in Walks
    /\ events = MaxEvents
    /\ scrape = NoScrape

ScanStep(i) ==
    \/ WorkerTake(i)
    \/ LoadJob(i)
    \/ MarkRunning(i)
    \/ ScanFolder(i)
    \/ FinishEmpty(i)
    \/ Dispatch(i)
    \/ FinishJob(i)
    \/ FailJob(i)

NextScan ==
    \/ \E kind \in ScanPathKinds : CreateJob(ScanPath(PlainPath, kind))
    \/ \E i \in 1..MaxJobs : ScanStep(i)
    \/ ScrapeStage

SpecScan == InitScan /\ [][NextScan]_vars

(* ------------------------------ properties ---------------------------- *)

Range(q) == { q[k] : k \in 1..Len(q) }

\* the ids in the order create_job put them: ids are given in INSERT
\* order and each create_job puts its id before the next one inserts
PutOrder == [k \in 1..(nextId - 1) |-> k]

\* the file paths of the child rows of a job, in insertion order
RECURSIVE PathsFrom(_, _, _)
PathsFrom(rowsOfChildren, job_id, k) ==
    IF k > Len(rowsOfChildren) THEN <<>>
    ELSE (IF rowsOfChildren[k].source_id = job_id
          THEN <<rowsOfChildren[k].file_path>> ELSE <<>>)
         \o PathsFrom(rowsOfChildren, job_id, k + 1)

ChildPaths(job_id) == PathsFrom(children, job_id, 1)

Increasing(q) == \A k \in 1..(Len(q) - 1) : q[k] < q[k + 1]

\* C2: jobs are executed in the order their ids were put on the queue,
\* one after the other: the ids taken so far are the first ids put, in put
\* order, and a job in execution is the last one taken (so every job taken
\* before it has ended); the child rows of a job are created in the order
\* of its file list
C2_FifoOrder ==
    /\ taken = SubSeq(PutOrder, 1, Len(taken))
    /\ \A i \in WorkerIds :
          Executing(workers[i]) =>
             /\ taken # <<>>
             /\ workers[i].job_id = taken[Len(taken)]
             /\ ChildPaths(workers[i].job_id)
                   = SubSeq(workers[i].files, 1, workers[i].sent)
    /\ \A j \in JobIds : Increasing(ChildPaths(j))

\* two jobs were taken, the first has dispatched two files and ended, the
\* second is dispatching
C2_Witness ==
    /\ Len(taken) = 2
    /\ rows[1].status = SUCCESS
    /\ Len(ChildPaths(1)) = 2
    /\ \E i \in WorkerIds : workers[i].pc = "dispatch" /\ workers[i].job_id = 2
       /\ workers[i].sent = 1

\* C3: at most one worker task is live at any moment, and at most one job
\* is in execution
C3_SingleWorker ==
    /\ Cardinality({i \in WorkerIds : Live(workers[i])}) <= 1
    /\ Cardinality({i \in WorkerIds : Executing(workers[i])}) <= 1
    /\ \A i \in WorkerIds : Live(workers[i]) => worker_task = i

\* a worker was cancelled and ended, a later create_job started a second
\* one, which is executing
C3_Witness ==
    /\ Len(workers) = 2
    /\ workers[1].ended = "cancelled"
    /\ Executing(workers[2])

\* C4: every job id put on the queue is eventually taken from it by a
\* worker
C4_EveryJobTaken ==
    \A j \in JobIds : (j \in Range(queue)) ~> (j \in Range(taken))

\* C5: a job that was in execution when its worker was cancelled has run to
\* completion: its row is success or failed with finished_at set
C5_CancelledJobCompletes ==
    \A i \in WorkerIds :
       (workers[i].ended = "cancelled" /\ workers[i].job_id # 0
          /\ rows[workers[i].job_id] # NoRow)
       => /\ rows[workers[i].job_id].status \in {SUCCESS, FAILED}
          /\ rows[workers[i].job_id].finished_at # None

\* C6: once the execution of a job in which an exception was raised is
\* over, the job's row is failed, with the exception text as error_message
\* and finished_at set
C6_ExceptionMarksFailed ==
    \A j \in JobIds :
       (/\ raised[j] # NoText
        /\ rows[j] # NoRow
        /\ \A i \in WorkerIds : workers[i].job_id # j)
       => /\ rows[j].status = FAILED
          /\ rows[j].error_message = raised[j]
          /\ rows[j].finished_at # None

\* C7: an exception that escapes _execute_job does not end the worker: a
\* worker task ends only by cancellation, and a worker that has logged
\* such an exception is the task _worker_task names, back in its loop:
\* executing a later job, or in get() with no cancellation pending only
\* while the id it was woken for is still to be taken
C7_WorkerSurvivesErrors ==
    \A i \in WorkerIds :
       /\ workers[i].pc = "done" => workers[i].ended = "cancelled"
       /\ workers[i].logged =>
             /\ Live(workers[i])
             /\ worker_task = i
             /\ (workers[i].pc = "get" /\ queue # <<>> /\ ~workers[i].cancel)
                   => ENABLED WorkerTake(i)

\* a worker that logged an escaped exception of the first job is
\* dispatching the files of the second
C7_Witness ==
    \E i \in WorkerIds :
       /\ workers[i].logged
       /\ raised[1] # NoText
       /\ workers[i].pc = "dispatch"
       /\ workers[i].job_id = 2

Terminal == {SUCCESS, FAILED}

C9_SuccessCounts ==
    /\ \A j \in JobIds :
          (rows[j] # NoRow /\ rows[j].status = SUCCESS) =>
             /\ rows[j].total_count = Len(FilesOf(rows[j].scan_path.kind, fs))
             /\ rows[j].success_count = Len(ChildPaths(j))
    /\ \A i \in WorkerIds :
          (workers[i].pc = "finish" /\ ~workers[i].cancel) =>
             /\ Len(ChildPaths(workers[i].job_id)) = Len(workers[i].files)
             /\ ENABLED FinishJob(i)

\* a job is success with two child rows that the scrape stage has not
\* consumed
C9_Witness ==
    /\ backlog
    /\ \E j \in JobIds :
          /\ rows[j] # NoRow
          /\ rows[j].status = SUCCESS
          /\ rows[j].success_count = 2

VideoPositions(walk) == { p \in 1..Len(walk) : IsVideo(walk[p]) }

EpisodeSubtitlePositions(walk) ==
    { p \in 1..Len(walk) :
         /\ walk[p].is_file
         /\ walk[p].ext \in {".ass", ".ssa", ".srt", ".vtt", ".sub"}
         /\ walk[p].episode }

DirJobDone(j) ==
    rows[j] # NoRow /\ rows[j].status = SUCCESS /\ rows[j].scan_path.kind = "dir"

ST_SUCCESS == "success"
ST_NO_MATCH == "no_match"
ST_SEARCH_FAILED == "search_failed"
ST_API_FAILED == "api_failed"
ST_NEED_SELECTION == "need_selection"
ST_NEED_SEASON_EPISODE == "need_season_episode"
ST_EMBY_CONFLICT == "emby_conflict"
ST_NFO_FAILED == "nfo_failed"
ST_FILE_CONFLICT == "file_conflict"
ST_MOVE_FAILED == "move_failed"

\* LogLevel values
INFO == "info"
LOG_SUCCESS == "success"
WARNING == "warning"
ERROR == "error"

\* the largest number of adult results a search returns in the model, and
\* the largest number_of_episodes of a series
MaxResults == 2
MaxEpisodes == 2

\* ScrapeLogStep(name=..., logs=[...]); completed defaults to True
ScrapeLogStep(name, logs) == [name |-> name, completed |-> TRUE, logs |-> logs]

\* step.logs.append(ScrapeLogEntry(level=...)) on the step at position k
AppendLog(steps, k, level) ==
    [steps EXCEPT ![k].logs = Append(@, level)]

\* step.logs.append(error entry); step.completed = False
FailStep(steps, k, level) ==
    [AppendLog(steps, k, level) EXCEPT ![k].completed = FALSE]

\* the position of the step called name (each name is appended once)
StepAt(steps, name) == CHOOSE k \in 1..Len(steps) : steps[k].name = name

\* TMDBSeries, as far as scrape_file reads it, and the None of a getter
TMDBSeries(number_of_episodes) ==
    [found |-> TRUE, number_of_episodes |-> number_of_episodes]
NoSeries == [found |-> FALSE, number_of_episodes |-> None]

\* get_series_by_api: None for 404 and for every other status but 200
get_series_by_api(status_code, number_of_episodes) ==
    IF status_code # 200 THEN NoSeries ELSE TMDBSeries(number_of_episodes)

\* series.number_of_episodes or 0
TotalEpisodes(series) ==
    IF series.number_of_episodes = None THEN 0 ELSE series.number_of_episodes

\* line 370: total_episodes == 1
EpisodeDefaults(total_episodes) == total_episodes = 1

\* the season and the episode that the parser finds in a name such as
\* "Show S02E03"; None when the name has no such marker
ParsedSeason == 2
ParsedEpisode == 3

\* how many calls of scrape_file place files into the same series folder
MaxCalls == 2

\* the seasons and episodes a file name can lead to: the default 1 or the
\* parsed number
SeasonNums == {1, ParsedSeason}
EpisodeNums == {1, ParsedEpisode}

\* dest_file.stem: the destination name is made of the series, the season
\* and the episode, and the series is the same in every call
Stem(season_num, episode_num) == <<season_num, episode_num>>
Stems == { Stem(s, e) : s \in SeasonNums, e \in EpisodeNums }

\* the NFO files of the metadata series folder and of its season folders:
\* each file is absent (NoText) or holds what the call in progress wrote
\* ("current") or what a call before it wrote ("earlier")
EmptyFolder ==
    [tvshow |-> NoText,
     season |-> [s \in SeasonNums |-> NoText],
     episode |-> [st \in Stems |-> NoText]]

\* the folders as the next call finds them: what is there was written by
\* an earlier call
Aged(content) == IF content = NoText THEN NoText ELSE "earlier"
FoundByNextCall(folder) ==
    [tvshow |-> Aged(folder.tvshow),
     season |-> [s \in SeasonNums |-> Aged(folder.season[s])],
     episode |-> [st \in Stems |-> Aged(folder.episode[st])]]

\* the state of a run when scrape_file is entered
NewRun(exists, auto_select) ==
    [pc |-> "exists", exists |-> exists, auto_select |-> auto_select,
     season |-> None, episode |-> None, parsed_episode |-> None,
     series |-> NoSeries, season_num |-> None, episode_num |-> None,
     scrape_logs |-> <<>>, status |-> ST_SUCCESS,
     message |-> NoText, calls |-> <<>>, oracle |-> NoText,
     source_file |-> IF exists THEN "video" ELSE "absent",
     dest_found |-> NoText, dest_file |-> NoText,
     search_results |-> <<>>, selected_id |-> None,
     first_empty |-> FALSE, fallback_results |-> <<>>,
     search_failure |-> NoText, detail_failure |-> NoText,
     call_no |-> 1, nfo_enabled |-> NoText, folder |-> EmptyFolder,
     season_fetch |-> NoText, artwork |-> NoText, subtitles |-> NoText,
     parsed_title |-> NoText, tmdb_id |-> None]

\* result.status = ...; result.message = ...; return result
Return(run, status, message, steps) ==
    [run EXCEPT !.pc = "returned", !.status = status, !.message = message,
                !.scrape_logs = steps]

\* an order in which the file is placed before the NFO content is made
PlacementBeforeNfo(stage) ==
    CASE stage = "select" -> "emby"
      [] stage = "emby" -> "rename"
      [] stage = "rename" -> "nfo"
      [] stage = "nfo" -> "nfo_write"
      [] stage = "nfo_write" -> "images"
      [] stage = "images" -> "subtitles"

\* the order of the statements of scrape_file from the season and episode
\* on: conflict check (423), NFO content (459), placement (475), NFO files
\* (549), artwork (578), subtitles (608)
StageAfter(stage) ==
    CASE stage = "select" -> "emby"
      [] stage = "emby" -> "nfo"
      [] stage = "nfo" -> "rename"
      [] stage = "rename" -> "nfo_write"
      [] stage = "nfo_write" -> "images"
      [] stage = "images" -> "subtitles"

\* the run goes on with the next pipeline step
Goto(run, pc, steps) == [run EXCEPT !.pc = pc, !.scrape_logs = steps]

\* a collaborator is invoked
Called(run, name) == [run EXCEPT !.calls = Append(@, name)]

\* an exception that no handler of scrape_file catches leaves the coroutine
Raised(run) == [run EXCEPT !.pc = "raised"]

\* lines 208-214: the existence check
CheckExists ==
    /\ scrape.pc = "exists"
    /\ scrape' = IF scrape.exists
                 THEN Goto(scrape, "parse", scrape.scrape_logs)
                 ELSE Return(scrape, ST_MOVE_FAILED, "file not found", <<>>)
    /\ UNCHANGED jobVars

\* the id that the parser finds in a path such as "Show [tmdbid=77]"
PathTmdbId == 77


\* TMDBSearchResult: the k-th result of a response has id k
TMDBSearchResult(id, adult) == [id |-> id, adult |-> adult]

\* search_response.results: up to MaxResults results, adult or not
SearchResponses ==
    UNION { { [k \in 1..n |-> TMDBSearchResult(k, flags[k])] :
                flags \in [1..n -> BOOLEAN] } : n \in 0..MaxResults }

\* [r for r in search_response.results if r.adult]
RECURSIVE AdultOnly(_)
AdultOnly(results) ==
    IF results = <<>> THEN <<>>
    ELSE (IF Head(results).adult THEN <<Head(results)>> ELSE <<>>)
         \o AdultOnly(Tail(results))

\* a selection that takes the first of any number of results
SelectsFirst(auto_select, adult_results) == auto_select /\ Len(adult_results) >= 1

\* search_series_by_api sends the one query it is given: the results of
\* the answer, none when the HTTP status is not 200. What the MDB would
\* answer to a simplified candidate query (fallback_results of a run) is
\* not asked for.
search_series_by_api(status_code, response) ==
    IF status_code # 200 THEN <<>> ELSE response

\* line 297: request.auto_select and len(adult_results) == 1
AutoSelects(auto_select, adult_results) == auto_select /\ Len(adult_results) = 1

\* parsed.series_name: None when no name was found, else the name
SeriesNames == {NoText, "Show"}

\* parsed.tmdb_id: None when the path has no [tmdbid-N] tag, else int(N)
\* for the digits N of the tag, which may be 0
PathTmdbIds == {None, 0, PathTmdbId}

\* lines 229, 239 and 247 test the parsed values for truth: 'not
\* parsed.series_name', 'if parsed.tmdb_id'
NameGiven(series_name) == series_name # NoText
IdGiven(tmdb_id) == tmdb_id # None /\ tmdb_id # 0

\* lines 216-259: step 1, and the search step that is opened after it
ParseFilename ==
    /\ scrape.pc = "parse"
    /\ \E series_name \in SeriesNames, tmdb_id \in PathTmdbIds,
          season \in {None, ParsedSeason}, episode \in {None, ParsedEpisode} :
         LET run == [Called(scrape, "parse") EXCEPT !.season = season,
                         !.episode = episode, !.parsed_episode = episode,
                         !.parsed_title = series_name, !.tmdb_id = tmdb_id]
             parse_step == ScrapeLogStep("parse", <<INFO>>)
         IN  scrape' =
               IF ~NameGiven(series_name) /\ ~IdGiven(tmdb_id)
               THEN Return(run, ST_NO_MATCH, "no series name",
                           FailStep(<<parse_step>>, 1, ERROR))
               ELSE LET steps == <<[parse_step EXCEPT !.logs = Append(@, INFO)],
                                   ScrapeLogStep("search", <<INFO>>)>>
                    IN  IF IdGiven(tmdb_id)
                        THEN Goto([run EXCEPT !.selected_id = tmdb_id],
                                  "detail", steps)
                        ELSE Goto(run, "search", steps)
    /\ UNCHANGED jobVars

\* how a call of the MDB client can fail: no API token, a timeout or a
\* connection failure of the HTTP request, a body that is not JSON
MdbFailures == {"NotConfigured", "Timeout", "Connection", "BadJson"}

\* _make_api_request and response.json(): the exception a failure becomes
ClientError(failure) ==
    CASE failure = "NotConfigured" -> "TMDBNotConfiguredError"
      [] failure = "Timeout" -> "TMDBTimeoutError"
      [] failure = "Connection" -> "TMDBConnectionError"
      [] failure = "BadJson" -> "ValueError"

\* isinstance(exc, class) for the classes of server.core.exceptions: the
\* client's Timeout and Connection errors are the errors the orchestrator
\* names in its handlers
IsInstance(exc, class) ==
    \/ exc = class
    \/ <<exc, class>> \in { <<"TMDBTimeoutError", "httpx.TimeoutException">>,
                            <<"TMDBTimeoutError", "httpx.RequestError">>,
                            <<"TMDBConnectionError", "httpx.RequestError">> }

\* the except clauses around the search call, around the detail call, and
\* in preview
SearchHandlers == {"httpx.TimeoutException", "httpx.RequestError"}
DetailHandlers == {"ValueError", "httpx.TimeoutException", "httpx.RequestError"}
PreviewHandlers == {"httpx.TimeoutException", "httpx.RequestError"}

Caught(exc, handlers) == \E class \in handlers : IsInstance(exc, class)

\* a test that never finds the series missing
SeriesNeverMissing(series) == FALSE

\* line 330: series is None
SeriesMissing(series) == series = NoSeries

\* lines 261-320: the search call and the choice of a candidate
SearchTMDB ==
    /\ scrape.pc = "search"
    /\ LET run == Called(scrape, "search")
           steps == scrape.scrape_logs
           k == StepAt(steps, "search")
       IN  \/ \E failure \in MdbFailures :
                LET failed == [run EXCEPT !.search_failure = failure]
                IN  scrape' = IF Caught(ClientError(failure), SearchHandlers)
                              THEN Return(failed, ST_SEARCH_FAILED, "search failed",
                                          FailStep(steps, k, ERROR))
                              ELSE Raised(failed)
           \/ \E status_code \in {200, 500}, response \in SearchResponses,
                 fallback \in SearchResponses :
                LET results == search_series_by_api(status_code, response)
                    adult_results == AdultOnly(results)
                    found == AppendLog(steps, k, INFO)
                    searched == [run EXCEPT !.search_results = adult_results,
                                            !.first_empty = (results = <<>>),
                                            !.fallback_results = fallback]
                IN  /\ results # <<>> => fallback = <<>>
                    /\ scrape' =
                      IF adult_results = <<>>
                      THEN Return(searched, ST_NO_MATCH, "no adult series found",
                                  FailStep(found, k, WARNING))
                      ELSE IF AutoSelects(scrape.auto_select, adult_results)
                      THEN Goto([searched EXCEPT !.selected_id = adult_results[1].id],
                                "detail", found)
                      ELSE Return(Called(searched, "enrich"), ST_NEED_SELECTION,
                                  "select manually", AppendLog(found, k, INFO))
    /\ UNCHANGED jobVars

\* lines 322-393: the series detail, and the episode that the name lacks
GetDetails ==
    /\ scrape.pc = "detail"
    /\ LET run == Called(scrape, "detail")
           steps == Append(scrape.scrape_logs, ScrapeLogStep("detail", <<INFO>>))
           k == Len(steps)
       IN  \/ \E failure \in MdbFailures :
                LET failed == [run EXCEPT !.detail_failure = failure]
                IN  scrape' = IF Caught(ClientError(failure), DetailHandlers)
                              THEN Return(failed, ST_API_FAILED, "detail request failed",
                                          FailStep(steps, k, ERROR))
                              ELSE Raised([failed EXCEPT !.scrape_logs = steps])
           \/ \E status_code \in {200, 404},
                 number_of_episodes \in {None} \cup 0..MaxEpisodes :
                LET series == get_series_by_api(status_code, number_of_episodes)
                    named == AppendLog(steps, k, INFO)
                    got == [run EXCEPT !.series = series, !.detail_failure =
                                          IF series.found THEN NoText ELSE "null"]
                IN  /\ status_code # 200 => number_of_episodes = None
                    /\ scrape' =
                      IF SeriesMissing(series)
                      THEN Return(got, ST_API_FAILED, "no series detail",
                                  FailStep(steps, k, ERROR))
                      ELSE IF scrape.episode # None
                      THEN Goto(got, "select", named)
                      ELSE IF EpisodeDefaults(TotalEpisodes(series))
                      THEN Goto([got EXCEPT !.episode = 1], "select", named)
                      ELSE Return(Called(got, "season"), ST_NEED_SEASON_EPISODE,
                                  "select the episode manually", named)
    /\ UNCHANGED jobVars

\* lines 396-397: parsed.season if parsed.season is not None else 1
\* what get_season_by_api does: it returns, or it raises; lines 415-421
\* take any exception of it and log a warning to the logger
FetchOutcomes == {"done", "raised"}

\* what the artwork and the subtitle helpers do: they finish (a download or
\* a rename that reports a failure is logged by them and they finish all
\* the same), or they raise
MediaOutcomes == {"done", "raised"}

\* lines 479 and 611: the helpers are called inside the try statement of
\* the placement, whose 'except Exception' takes whatever they raise
PlacementTryCatches(outcome) == outcome = "raised"

OrDefault(number) == IF number # None THEN number ELSE 1

\* lines 395-421: the season/episode step and the season detail, whose
\* failure is only logged
DetermineEpisode ==
    /\ scrape.pc = "select"
    /\ \E season_fetch \in FetchOutcomes :
         LET run == [Called(scrape, "season") EXCEPT
                        !.season_num = OrDefault(scrape.season),
                        !.episode_num = OrDefault(scrape.episode),
                        !.season_fetch = season_fetch]
             steps == Append(scrape.scrape_logs, ScrapeLogStep("select", <<INFO>>))
         IN  scrape' = Goto(run, StageAfter("select"), steps)
    /\ UNCHANGED jobVars

\* ConflictType values, and an exception of the check
ConflictOutcomes == {"NO_CONFLICT", "SERIES_EXISTS", "EPISODE_EXISTS", "exception"}

\* _check_emby_conflict: the oracle is asked only when the media-server
\* integration is enabled and set to check before a scrape
_check_emby_conflict(enabled, check_before_scrape, report) ==
    IF ~enabled \/ ~check_before_scrape THEN "NO_CONFLICT" ELSE report

\* lines 433-436: an exception of the check counts as no conflict
ConflictType(outcome) == IF outcome = "exception" THEN "NO_CONFLICT" ELSE outcome

\* a check whose episode_exists answer does not end the run
ConflictNeverEnds(conflict_type) == FALSE

\* line 438: the answer that ends the run
ConflictEnds(conflict_type) == conflict_type = "EPISODE_EXISTS"

\* lines 423-457: the media-server conflict check; oracle keeps what the
\* oracle answered when it was asked
CheckEmbyConflict ==
    /\ scrape.pc = "emby"
    /\ \E enabled \in BOOLEAN, check_before_scrape \in BOOLEAN,
          report \in ConflictOutcomes, message \in {NoText, "episode exists"} :
         LET asked == enabled /\ check_before_scrape
             run == [Called(scrape, "emby") EXCEPT
                        !.oracle = IF asked THEN report ELSE NoText]
             conflict_type ==
                 ConflictType(_check_emby_conflict(enabled, check_before_scrape, report))
             steps == Append(scrape.scrape_logs, ScrapeLogStep("emby", <<>>))
             k == Len(steps)
         IN  scrape' =
               IF ConflictEnds(conflict_type)
               THEN Return(run, ST_EMBY_CONFLICT, message, FailStep(steps, k, WARNING))
               ELSE IF conflict_type = "SERIES_EXISTS"
               THEN Goto(run, StageAfter("emby"), AppendLog(steps, k, LOG_SUCCESS))
               ELSE Goto(run, StageAfter("emby"), AppendLog(steps, k, INFO))
    /\ UNCHANGED jobVars

\* lines 459-473: the NFO content
GenerateNfo ==
    /\ scrape.pc = "nfo"
    /\ \E ok \in BOOLEAN :
         LET run == Called(scrape, "nfo")
             steps == Append(scrape.scrape_logs, ScrapeLogStep("nfo", <<>>))
             k == Len(steps)
         IN  scrape' = IF ok
                       THEN Goto(run, StageAfter("nfo"), AppendLog(steps, k, INFO))
                       ELSE Return(run, ST_NFO_FAILED, "nfo generation failed",
                                   FailStep(steps, k, ERROR))
    /\ UNCHANGED jobVars

\* lines 611-618: the handler of the try block that spans placement, the
\* NFO files, the artwork and the subtitles
PlacementFailed(run) ==
    Return(run, ST_MOVE_FAILED, "placement failed",
           FailStep(run.scrape_logs, StepAt(run.scrape_logs, "move"), ERROR))

\* OrganizeMode
COPY == "copy"
MOVE == "move"
HARDLINK == "hardlink"
SYMLINK == "symlink"
INPLACE == "inplace"
OrganizeMode == {COPY, MOVE, HARDLINK, SYMLINK, INPLACE}

\* what execute_rename finds at the destination path: nothing, a file that
\* is not the source, or the source itself (dest_path == source_path)
DestStates == {"absent", "other", "same"}

\* what the file operation can raise
RenameFaults == {NoText, "PermissionError", "OSError"}

\* lines 483-489: in-place organising uses MOVE
EffectiveLinkMode(link_mode) == IF link_mode = INPLACE THEN MOVE ELSE link_mode

\* _execute_file_operation on a free destination: the source and the
\* destination afterwards
FileOperation(mode) ==
    CASE mode = COPY -> [source_file |-> "video", dest_file |-> "video"]
      [] mode = HARDLINK -> [source_file |-> "video", dest_file |-> "hardlink"]
      [] mode = SYMLINK -> [source_file |-> "video", dest_file |-> "symlink"]
      [] OTHER -> [source_file |-> "absent", dest_file |-> "video"]

\* an existence test that never finds the destination taken
DestinationNeverTaken(dest_found) == FALSE

\* dest_path.exists() and dest_path != source_path
DestinationTaken(dest_found) == dest_found = "other"

\* RenameService.execute_rename, for a source that exists: the result it
\* returns and the two files afterwards. Onto the source itself only a move
\* goes through (a rename of a file to its own name); copy2, link and
\* symlink raise an OSError there.
execute_rename(dest_found, mode, fault) ==
    LET untouched == [source_file |-> "video", dest_file |-> dest_found] IN
    IF DestinationTaken(dest_found)
    THEN [success |-> FALSE, error |-> "Destination file already exists"] @@ untouched
    ELSE IF fault = "PermissionError"
    THEN [success |-> FALSE, error |-> "Permission denied"] @@ untouched
    ELSE IF fault = "OSError" \/ (dest_found = "same" /\ mode # MOVE)
    THEN [success |-> FALSE, error |-> "OS error"] @@ untouched
    ELSE IF dest_found = "same"
    THEN [success |-> TRUE, error |-> NoText] @@ untouched
    ELSE [success |-> TRUE, error |-> NoText] @@ FileOperation(mode)

\* "already exists" in rename_result.error
AlreadyExistsIn(error) == error = "Destination file already exists"

\* lines 475-530: the placement of the file under one of the given
\* organize modes; an exception before execute_rename is called (lines
\* 480-505) goes to the handler of the try
PlaceFile(modes) ==
    /\ scrape.pc = "rename"
    /\ LET steps == Append(scrape.scrape_logs, ScrapeLogStep("move", <<INFO>>))
           k == Len(steps)
           opened == [scrape EXCEPT !.scrape_logs = steps]
       IN  \/ scrape' = PlacementFailed(opened)
           \/ \E link_mode \in modes, dest_found \in DestStates,
                 fault \in RenameFaults :
                LET rename_result ==
                        execute_rename(dest_found, EffectiveLinkMode(link_mode), fault)
                    run == [Called(opened, "rename") EXCEPT
                               !.dest_found = dest_found,
                               !.source_file = rename_result.source_file,
                               !.dest_file = rename_result.dest_file]
                IN  scrape' =
                      IF ~rename_result.success
                      THEN IF rename_result.error # NoText
                                /\ AlreadyExistsIn(rename_result.error)
                           THEN Return(run, ST_FILE_CONFLICT, "destination exists",
                                       FailStep(steps, k, WARNING))
                           ELSE Return(run, ST_MOVE_FAILED, rename_result.error,
                                       FailStep(steps, k, ERROR))
                      ELSE Goto(run, StageAfter("rename"), AppendLog(steps, k, INFO))
    /\ UNCHANGED jobVars

\* the placement under any organize mode of the configuration
RenameFile == PlaceFile(OrganizeMode)

\* path.write_text(content): the file holds the new content
WriteText(existing, content) == content

\* lines 559-563 and 568-571: tvshow.nfo and season.nfo are written only
\* when the path does not exist
WriteAlways(existing, content) == WriteText(existing, content)
WriteIfAbsent(existing, content) ==
    IF existing = NoText THEN WriteText(existing, content) ELSE existing

\* the call of lines 538-576 that raises: the mkdir of the metadata
\* folders or one of the three writes
NfoFaults == {"none", "mkdir", "episode", "tvshow", "season"}

\* lines 532-581: the NFO files, written into the placement step's log;
\* the artwork step is opened after them
WriteNfo ==
    /\ scrape.pc = "nfo_write"
    /\ \E nfo_enabled \in BOOLEAN, fault \in NfoFaults :
         LET run == [Called(scrape, "nfo_write") EXCEPT
                        !.nfo_enabled = IF fault = "mkdir" THEN NoText
                                        ELSE IF nfo_enabled THEN "on" ELSE "off"]
             k == StepAt(scrape.scrape_logs, "move")
             before == scrape.folder
             stem == Stem(scrape.season_num, scrape.episode_num)
             content == "current"
             episode_done == nfo_enabled /\ fault \notin {"mkdir", "episode"}
             with_episode ==
                 IF episode_done
                 THEN [before EXCEPT !.episode[stem] = WriteText(@, content)]
                 ELSE before
             tvshow_raised ==
                 episode_done /\ fault = "tvshow" /\ before.tvshow = NoText
             tvshow_done == episode_done /\ ~tvshow_raised
             with_tvshow ==
                 IF tvshow_done
                 THEN [with_episode EXCEPT !.tvshow = WriteIfAbsent(@, content)]
                 ELSE with_episode
             season_raised ==
                 /\ tvshow_done
                 /\ fault = "season"
                 /\ before.season[scrape.season_num] = NoText
             with_season ==
                 IF tvshow_done /\ ~season_raised
                 THEN [with_tvshow EXCEPT
                          !.season[scrape.season_num] = WriteIfAbsent(@, content)]
                 ELSE with_tvshow
             failed == \/ fault = "mkdir"
                       \/ nfo_enabled /\ fault = "episode"
                       \/ tvshow_raised
                       \/ season_raised
             generated ==
                 (IF episode_done /\ before.tvshow = NoText
                  THEN <<"tvshow_nfo">> ELSE <<>>)
                 \o (IF tvshow_done /\ before.season[scrape.season_num] = NoText
                     THEN <<"season_nfo">> ELSE <<>>)
             written == [run EXCEPT !.folder = with_season,
                                    !.calls = @ \o generated]
         IN  scrape' =
               IF failed
               THEN PlacementFailed(written)
               ELSE Goto(written, StageAfter("nfo_write"),
                         Append(AppendLog(scrape.scrape_logs, k, INFO),
                                ScrapeLogStep("image", <<>>)))
    /\ UNCHANGED jobVars

\* lines 583-606: the series images and the episode thumbnail
DownloadImages ==
    /\ scrape.pc = "images"
    /\ \E artwork \in MediaOutcomes :
         LET run == [Called(scrape, "artwork") EXCEPT !.artwork = artwork]
             k == StepAt(scrape.scrape_logs, "image")
         IN  scrape' =
               IF PlacementTryCatches(artwork)
               THEN PlacementFailed(run)
               ELSE Goto(run, StageAfter("images"), AppendLog(scrape.scrape_logs, k, INFO))
    /\ UNCHANGED jobVars

\* lines 608-635: the subtitles, then the successful end
ProcessSubtitles ==
    /\ scrape.pc = "subtitles"
    /\ \E subtitles \in MediaOutcomes :
         LET run == [Called(scrape, "subtitles") EXCEPT !.subtitles = subtitles]
         IN  scrape' =
               IF PlacementTryCatches(subtitles)
               THEN PlacementFailed(run)
               ELSE Return(run, ST_SUCCESS, "scrape finished", run.scrape_logs)
    /\ UNCHANGED jobVars

\* a call of preview(file_path) that has not started
NewPreview == [NewRun(TRUE, FALSE) EXCEPT !.pc = "preview"]

\* lines 124-173: preview parses the name, then either fetches the series
\* of the id found in the path or searches by title; Timeout and
\* RequestError are swallowed, any other exception leaves the coroutine
Preview ==
    /\ scrape.pc = "preview"
    /\ \E series_name \in BOOLEAN, tmdb_id \in BOOLEAN :
         LET parsed == Called(scrape, "parse")
             done(run) == [run EXCEPT !.pc = "previewed"]
             left(run) == [run EXCEPT !.pc = "preview_raised"]
         IN  IF tmdb_id
             THEN \/ \E failure \in MdbFailures :
                       scrape' = IF Caught(ClientError(failure), PreviewHandlers)
                                 THEN done(Called(parsed, "detail"))
                                 ELSE left(Called(parsed, "detail"))
                  \/ \E status_code \in {200, 404} :
                       scrape' =
                         IF SeriesMissing(get_series_by_api(status_code, 0))
                         THEN done(Called(parsed, "detail"))
                         ELSE done([Called(parsed, "detail") EXCEPT
                                 !.search_results =
                                     <<TMDBSearchResult(PathTmdbId, TRUE)>>])
             ELSE IF series_name
             THEN \/ \E failure \in MdbFailures :
                       scrape' = IF Caught(ClientError(failure), PreviewHandlers)
                                 THEN done(Called(parsed, "search"))
                                 ELSE left(Called(parsed, "search"))
                  \/ \E status_code \in {200, 500}, response \in SearchResponses :
                       scrape' = done([Called(parsed, "search") EXCEPT
                           !.search_results = search_series_by_api(status_code, response)])
             ELSE scrape' = done(parsed)
    /\ UNCHANGED jobVars

\* scrape_file is called again, for another file that goes to the same
\* series: the folders keep the NFO files of the earlier calls
ScrapeAgain ==
    /\ scrape.pc \in {"returned", "raised"}
    /\ scrape.call_no < MaxCalls
    /\ \E exists \in BOOLEAN, auto_select \in BOOLEAN :
         scrape' = [NewRun(exists, auto_select) EXCEPT
                       !.call_no = scrape.call_no + 1,
                       !.folder = FoundByNextCall(scrape.folder)]
    /\ UNCHANGED jobVars

\* the request and the file system a run can start from
InitScrape ==
    /\ JobsInit
    /\ fs = <<>>
    /\ events = 0
    /\ \/ \E exists \in BOOLEAN, auto_select \in BOOLEAN :
            scrape = NewRun(exists, auto_select)
       \/ scrape = NewPreview

\* the steps of one call of scrape_file
PipelineStep ==
    \/ CheckExists
    \/ ParseFilename
    \/ SearchTMDB
    \/ GetDetails
    \/ DetermineEpisode
    \/ CheckEmbyConflict
    \/ GenerateNfo
    \/ RenameFile
    \/ WriteNfo
    \/ DownloadImages
    \/ ProcessSubtitles

NextScrape ==
    \/ Preview
    \/ PipelineStep

SpecScrape == InitScrape /\ [][NextScrape]_vars

\* the steps of a call of scrape_file under the organize mode move
FolderStep ==
    \/ CheckExists
    \/ ParseFilename
    \/ SearchTMDB
    \/ GetDetails
    \/ DetermineEpisode
    \/ CheckEmbyConflict
    \/ GenerateNfo
    \/ PlaceFile({MOVE})
    \/ WriteNfo
    \/ DownloadImages
    \/ ProcessSubtitles

\* calls of scrape_file one after another into the same folders
NextFolder ==
    \/ FolderStep
    \/ ScrapeAgain

InitFolder ==
    /\ JobsInit
    /\ fs = <<>>
    /\ events = 0
    /\ \E exists \in BOOLEAN, auto_select \in BOOLEAN :
         scrape = NewRun(exists, auto_select)

SpecFolder == InitFolder /\ [][NextFolder]_vars

\* the run has returned a result whose status is not success
EndedWithoutSuccess == scrape.pc = "returned" /\ scrape.status # ST_SUCCESS

\* the step at which the run ended: the last one appended to scrape_logs
LastStep == scrape.scrape_logs[Len(scrape.scrape_logs)]

\* a step's log holds an entry that reports a problem
HasErrorLog(step) == \E n \in 1..Len(step.logs) : step.logs[n] \in {WARNING, ERROR}

\* C1: whenever a scrape_file run ends with a status other than success, the
\* step at which it ended has completed = false, that step's log and
\* result.message both record the error, and nothing of the pipeline runs
\* after the return.
C1_FailureMarksEndingStep ==
    EndedWithoutSuccess =>
        /\ Len(scrape.scrape_logs) > 0
        /\ ~LastStep.completed
        /\ HasErrorLog(LastStep)
        /\ scrape.message # NoText
        /\ ~ENABLED PipelineStep

\* an exception of the artwork stage ends the run as move_failed: the
\* artwork step, where the run ended, still says completed, and the
\* placement step, which had succeeded, is the one marked
ArtworkFailureEndsRun ==
    /\ EndedWithoutSuccess
    /\ scrape.calls # <<>>
    /\ scrape.calls[Len(scrape.calls)] = "artwork"
    /\ LastStep.name = "image"
    /\ LastStep.completed

(* -------------------- jobs on refused scan paths ---------------------- *)

\* jobs on every kind of scan path, at most one video file in the folder, no
\* cancellation and no database fault
InitPaths ==
    /\ JobsInit
    /\ fs \in { w \in VideoWalks : Len(w) <= 1 }
    /\ events = MaxEvents
    /\ scrape = NoScrape

NextPaths ==
    \/ \E scan_path \in JobPaths : CreateJob(scan_path)
    \/ \E i \in 1..MaxJobs : ScanStep(i)
    \/ ScrapeStage

SpecPaths == InitPaths /\ [][NextPaths]_vars

\* the path holds '..', '~' or NUL, or lies under a blocked directory
RefusedPath(raw) ==
    \/ \E k \in 1..Len(raw) : raw[k] \in {"..", "~", "NUL"}
    \/ \E blocked \in BLOCKED_PATHS : StartsWith(Resolve(raw), blocked)

\* C11: a job whose scan_path is a refused path never has a child scrape
\* task, whether scan_path is a directory or a single file, and it does not
\* end in success: once it has been executed its row is failed.
C11_RefusedPathNoChild ==
    \A j \in JobIds :
        (rows[j] # NoRow /\ RefusedPath(rows[j].scan_path.raw)) =>
            /\ ChildPaths(j) = <<>>
            /\ rows[j].status # SUCCESS
            /\ (j \in Range(taken) /\ \A i \in WorkerIds : workers[i].job_id # j)
                  => rows[j].status = FAILED

\* the same for directories only: scan_folder refuses them
RefusedDirectoryNoChild ==
    \A j \in JobIds :
        (rows[j] # NoRow /\ RefusedPath(rows[j].scan_path.raw)
           /\ rows[j].scan_path.kind # "file") =>
            /\ ChildPaths(j) = <<>>
            /\ rows[j].status # SUCCESS

(* ------------------------- the conflict oracle ------------------------ *)

\* the collaborators that touch files: placement, the NFO files, the
\* artwork and the subtitles
FileWriters == {"rename", "nfo_write", "artwork", "subtitles"}

\* C12: when the conflict oracle answers episode_exists the run has ended
\* with the conflict status and neither the NFO generator nor any
\* collaborator that touches files was invoked; when it answers
\* series_exists the run does not end there: NFO generation comes next, and
\* placement after an NFO that was generated.
C12_EpisodeConflictStopsRun ==
    /\ scrape.oracle = "EPISODE_EXISTS" =>
          /\ scrape.pc = "returned"
          /\ scrape.status = ST_EMBY_CONFLICT
          /\ Range(scrape.calls) \cap (FileWriters \cup {"nfo"}) = {}
    /\ scrape.oracle = "SERIES_EXISTS" =>
          /\ scrape.status # ST_EMBY_CONFLICT
          /\ scrape.pc = "nfo" => ENABLED GenerateNfo
          /\ scrape.pc # "nfo" => "nfo" \in Range(scrape.calls)
          /\ (scrape.pc = "returned" /\ scrape.status # ST_NFO_FAILED)
                => \E k \in 1..Len(scrape.scrape_logs) :
                       scrape.scrape_logs[k].name = "move"

\* the oracle answered episode_exists and the run has returned
C12_Witness ==
    /\ scrape.oracle = "EPISODE_EXISTS"
    /\ scrape.pc = "returned"
    /\ scrape.calls[Len(scrape.calls)] = "emby"

\* the oracle answered series_exists and the file was placed
SeriesExistsPlaced ==
    /\ scrape.oracle = "SERIES_EXISTS"
    /\ scrape.status = ST_SUCCESS
    /\ scrape.pc = "returned"

(* ----------------------- a taken destination -------------------------- *)

\* C13: when execute_rename finds a file that is not the source at the
\* destination path, the source file and the file at the destination are
\* both left as they were, in every placement mode, and scrape_file has
\* ended with status file_conflict.
C13_TakenDestinationKept ==
    scrape.dest_found = "other" =>
        /\ scrape.source_file = "video"
        /\ scrape.dest_file = "other"
        /\ scrape.pc = "returned"
        /\ scrape.status = ST_FILE_CONFLICT

\* execute_rename was called on a taken destination
C13_Witness ==
    /\ scrape.dest_found = "other"
    /\ scrape.calls[Len(scrape.calls)] = "rename"
    /\ scrape.pc = "returned"

(* ------------------------ candidate selection ------------------------- *)

\* the run has asked for the series detail
DetailFetched == "detail" \in Range(scrape.calls)

\* the run has searched by title
Searched == "search" \in Range(scrape.calls)

\* the call is one of scrape_file, not of preview
ScrapeFileRun == scrape.pc \notin {"preview", "previewed", "preview_raised"}

\* C14: a run that searched fetches the series detail only when
\* auto_select is set and the search gave exactly one adult result, and
\* selected_id is then the id of that result; a search that gave two or more
\* adult results, or one or more without auto_select, has ended the run with
\* need_selection, with no placement and no file written.
C14_SelectionRule ==
    /\ (Searched /\ (DetailFetched \/ scrape.pc = "detail")) =>
          /\ scrape.auto_select
          /\ Len(scrape.search_results) = 1
          /\ scrape.selected_id = scrape.search_results[1].id
    /\ (/\ ScrapeFileRun
        /\ \/ Len(scrape.search_results) >= 2
           \/ Len(scrape.search_results) >= 1 /\ ~scrape.auto_select) =>
          /\ scrape.pc = "returned"
          /\ scrape.status = ST_NEED_SELECTION
          /\ Range(scrape.calls) \cap (FileWriters \cup {"detail"}) = {}
          /\ scrape.source_file = "video"

\* auto_select with two adult results has ended in need_selection
C14_Witness ==
    /\ scrape.auto_select
    /\ Len(scrape.search_results) = 2
    /\ scrape.status = ST_NEED_SELECTION

\* the single adult result of a search was selected and its detail fetched
SingleResultSelected ==
    /\ Searched
    /\ DetailFetched
    /\ scrape.selected_id = scrape.search_results[1].id

(* --------------------------- adult results ---------------------------- *)

\* C15: every result in search_results, of a scrape_file run and of a
\* preview, has adult = true, and so has the result whose id became
\* selected_id.
C15_OnlyAdultResults ==
    \A k \in 1..Len(scrape.search_results) : scrape.search_results[k].adult

\* the same for scrape_file alone
ScrapeFileOnlyAdultResults ==
    ScrapeFileRun => C15_OnlyAdultResults

(* --------------------------- fallback search -------------------------- *)

\* the search for the parsed name gave nothing while the MDB has exactly
\* one adult result for a candidate query
FallbackWouldMatch ==
    /\ ScrapeFileRun
    /\ scrape.first_empty
    /\ Len(AdultOnly(scrape.fallback_results)) = 1

\* C16: when the search for the parsed series name returns no result and a
\* fallback candidate query returns exactly one adult result, a run that
\* has returned did not end with no_match and its selected_id is the id of
\* that result.
C16_FallbackSelected ==
    (FallbackWouldMatch /\ scrape.pc = "returned") =>
        /\ scrape.status # ST_NO_MATCH
        /\ scrape.selected_id = AdultOnly(scrape.fallback_results)[1].id

(* ------------------------- MDB client failures ------------------------ *)

SearchTimedOut ==
    /\ scrape.search_failure = "Timeout"
    /\ scrape.pc = "returned"

(* ----------------------- season and episode --------------------------- *)

\* the series detail is there and the name had no episode
EpisodeMissing ==
    /\ ScrapeFileRun
    /\ scrape.series.found
    /\ scrape.parsed_episode = None

\* C18: once the series detail is fetched, a missing season is taken as 1;
\* a missing episode with number_of_episodes > 1 has ended the run with
\* need_season_episode and nothing placed; a missing episode with
\* number_of_episodes at most 1 (0 and unknown included) is taken as 1 and
\* the run does not end there.
C18_SeasonEpisodeDefaults ==
    /\ (scrape.season_num # None /\ scrape.season = None) => scrape.season_num = 1
    /\ (EpisodeMissing /\ TotalEpisodes(scrape.series) > 1) =>
          /\ scrape.pc = "returned"
          /\ scrape.status = ST_NEED_SEASON_EPISODE
          /\ Range(scrape.calls) \cap FileWriters = {}
    /\ (EpisodeMissing /\ TotalEpisodes(scrape.series) <= 1) =>
          /\ scrape.status # ST_NEED_SEASON_EPISODE
          /\ scrape.episode = 1
          /\ scrape.episode_num \in {None, 1}

\* what the code does: the episode is taken as 1 only for a series of
\* exactly one episode; for any other count the run ends with
\* need_season_episode
EpisodeDefaultOnlyForOne ==
    /\ (scrape.season_num # None /\ scrape.season = None) => scrape.season_num = 1
    /\ (EpisodeMissing /\ TotalEpisodes(scrape.series) # 1) =>
          /\ scrape.pc = "returned"
          /\ scrape.status = ST_NEED_SEASON_EPISODE
          /\ Range(scrape.calls) \cap FileWriters = {}
    /\ (EpisodeMissing /\ TotalEpisodes(scrape.series) = 1) =>
          /\ scrape.status # ST_NEED_SEASON_EPISODE
          /\ scrape.episode = 1
          /\ scrape.episode_num \in {None, 1}


(* ----------------------------- NFO files ------------------------------ *)

\* the stem of the file that the run placed
DestStem == Stem(scrape.season_num, scrape.episode_num)

\* C19: over any sequence of calls of scrape_file into the same series and
\* season folders, the steps of a call change no tvshow.nfo and no
\* season.nfo that exists; the NFO step of a call with the NFO flag on, when
\* it goes through, leaves the episode NFO of the destination stem with the
\* content of that call, and so does a call that ends in success; a step of
\* a call whose NFO flag is not on changes no NFO file.
C19_NfoWrittenOnce ==
    [][ scrape'.call_no = scrape.call_no =>
          /\ scrape.folder.tvshow # NoText =>
                scrape'.folder.tvshow = scrape.folder.tvshow
          /\ \A s \in SeasonNums :
                scrape.folder.season[s] # NoText =>
                    scrape'.folder.season[s] = scrape.folder.season[s]
          /\ (scrape.pc = "nfo_write" /\ scrape'.pc = "images"
                 /\ scrape'.nfo_enabled = "on") =>
                /\ scrape'.folder.episode[DestStem] = "current"
                /\ scrape'.folder.tvshow # NoText
                /\ scrape'.folder.season[scrape.season_num] # NoText
          /\ (scrape'.pc = "returned" /\ scrape'.status = ST_SUCCESS
                 /\ scrape'.nfo_enabled = "on") =>
                scrape'.folder.episode[DestStem'] = "current"
          /\ scrape'.nfo_enabled # "on" => scrape'.folder = scrape.folder
      ]_vars

\* a later call ended in success with the flag on: its episode NFO is its
\* own and tvshow.nfo is still the one of an earlier call
C19_Witness ==
    /\ scrape.call_no > 1
    /\ scrape.pc = "returned"
    /\ scrape.status = ST_SUCCESS
    /\ scrape.nfo_enabled = "on"
    /\ scrape.folder.tvshow = "earlier"
    /\ scrape.folder.episode[DestStem] = "current"

\* a call with the flag off ended in success in a folder that holds no NFO
NfoFlagOffWritesNothing ==
    /\ scrape.pc = "returned"
    /\ scrape.status = ST_SUCCESS
    /\ scrape.nfo_enabled = "off"
    /\ scrape.folder = EmptyFolder


(* ----------------------- failures that are logged --------------------- *)

\* the season-detail fetch of lines 413-421, the artwork download or the
\* subtitle processing raised during the run
NonFatalRaised ==
    \/ scrape.season_fetch = "raised"
    \/ scrape.artwork = "raised"
    \/ scrape.subtitles = "raised"

\* the run is over and the last collaborator it invoked was the artwork or
\* the subtitle helper: every step before them had succeeded
EndedAtMediaCall ==
    /\ scrape.pc \in {"returned", "raised"}
    /\ scrape.calls # <<>>
    /\ scrape.calls[Len(scrape.calls)] \in {"artwork", "subtitles"}

\* the run went on after the season-detail fetch
WentOnToConflictCheck == scrape.pc = "emby" \/ "emby" \in Range(scrape.calls)

\* C20: when the season-detail fetch, the artwork download or the subtitle
\* processing raised, the run did not end there: it went on after the
\* fetch, and a run in which every other step succeeded has returned with
\* status success.
C20_NonFatalFailuresLogged ==
    /\ scrape.season_fetch = "raised" => WentOnToConflictCheck
    /\ (NonFatalRaised /\ EndedAtMediaCall) =>
          scrape.pc = "returned" /\ scrape.status = ST_SUCCESS

\* the part that holds: an exception of the season-detail fetch never ends
\* the run, and a download or a subtitle rename that reports its failure
\* without raising leaves the run on its way to success
SeasonFetchFailureLogged ==
    /\ scrape.season_fetch = "raised" => WentOnToConflictCheck
    /\ (EndedAtMediaCall /\ scrape.artwork # "raised"
           /\ scrape.subtitles # "raised") =>
          scrape.pc = "returned" /\ scrape.status = ST_SUCCESS

\* the season-detail fetch raised and the run ended in success
SeasonFetchRaisedSuccess ==
    /\ scrape.season_fetch = "raised"
    /\ scrape.pc = "returned"
    /\ scrape.status = ST_SUCCESS


(* ------------------------ the incomplete step ------------------------- *)

\* the steps of scrape_logs that have completed = false
IncompleteSteps ==
    { k \in 1..Len(scrape.scrape_logs) : ~scrape.scrape_logs[k].completed }

\* C21: in the scrape_logs of a returned result at most one step has
\* completed = false, and when one has, it is the last step of the list.
C21_IncompleteStepIsLast ==
    (ScrapeFileRun /\ scrape.pc = "returned") =>
        /\ Cardinality(IncompleteSteps) <= 1
        /\ \A k \in IncompleteSteps : k = Len(scrape.scrape_logs)

\* what holds: at most one step is incomplete, and it is the last one
\* unless the artwork or the subtitle helper raised, when it is the
\* placement step before the artwork step
IncompleteStepLastOrPlacement ==
    (ScrapeFileRun /\ scrape.pc = "returned") =>
        /\ Cardinality(IncompleteSteps) <= 1
        /\ \A k \in IncompleteSteps :
              \/ k = Len(scrape.scrape_logs)
              \/ /\ scrape.artwork = "raised" \/ scrape.subtitles = "raised"
                 /\ scrape.scrape_logs[k].name = "move"
                 /\ k + 1 = Len(scrape.scrape_logs)


(* --------------------------- the id in the path ----------------------- *)

\* the parser has run
Parsed == ScrapeFileRun /\ "parse" \in Range(scrape.calls)

\* the requests to the MDB: search, series detail, season detail
MdbCalls == {"search", "detail", "season"}

\* the run ended with no_match at the parse step
NoMatchAtParse ==
    /\ scrape.pc = "returned"
    /\ scrape.status = ST_NO_MATCH
    /\ Len(scrape.scrape_logs) = 1
    /\ LastStep.name = "parse"

\* C22: when the parser yields an id from the path, selected_id is that id
\* and no search request is issued, with or without a parsed series name;
\* the run ends with no_match at the parse step exactly when neither a
\* series name nor an id was parsed, and then no request to the MDB is made.
C22_PathIdUsedDirectly ==
    Parsed =>
        /\ scrape.tmdb_id # None =>
              /\ scrape.selected_id = scrape.tmdb_id
              /\ "search" \notin Range(scrape.calls)
        /\ NoMatchAtParse <=>
              (scrape.parsed_title = NoText /\ scrape.tmdb_id = None)
        /\ NoMatchAtParse => Range(scrape.calls) \cap MdbCalls = {}

\* the same for the ids that the code takes as given, which leaves out 0
NonZeroPathIdUsedDirectly ==
    Parsed =>
        /\ IdGiven(scrape.tmdb_id) =>
              /\ scrape.selected_id = scrape.tmdb_id
              /\ "search" \notin Range(scrape.calls)
        /\ NoMatchAtParse <=>
              (scrape.parsed_title = NoText /\ ~IdGiven(scrape.tmdb_id))
        /\ NoMatchAtParse => Range(scrape.calls) \cap MdbCalls = {}

\* an id was taken from a path that gave no series name
PathIdWithoutName ==
    /\ Parsed
    /\ scrape.parsed_title = NoText
    /\ scrape.selected_id = PathTmdbId
    /\ "detail" \in Range(scrape.calls)


(* ----------------------- the order of the calls ----------------------- *)

\* the place of a call in the order parser, MDB client, conflict oracle,
\* NFO generator, placement, artwork, subtitles; writing the NFO files is
\* the orchestrator's own work and goes with the placement
Rank(call) ==
    CASE call = "parse" -> 1
      [] call \in {"search", "enrich", "detail", "season"} -> 2
      [] call = "emby" -> 3
      [] call \in {"nfo", "tvshow_nfo", "season_nfo"} -> 4
      [] call \in {"rename", "nfo_write"} -> 5
      [] call = "artwork" -> 6
      [] call = "subtitles" -> 7

\* the same with the generation of tvshow.nfo and season.nfo in its own
\* place, between placement and artwork
RankWithFolderNfo(call) ==
    IF call \in {"tvshow_nfo", "season_nfo"} THEN 5 ELSE Rank(call)

\* each collaborator of calls is there only after those that the run needs
\* before it
PredecessorsCalled(calls) ==
    LET before(n) == { calls[i] : i \in 1..(n - 1) }
    IN  \A n \in 1..Len(calls) :
          /\ calls[n] # "parse" => "parse" \in before(n)
          /\ calls[n] = "emby" => "detail" \in before(n)
          /\ calls[n] = "nfo" => "emby" \in before(n)
          /\ calls[n] = "rename" => "nfo" \in before(n)
          /\ calls[n] \in {"tvshow_nfo", "season_nfo", "artwork"} =>
                "rename" \in before(n)
          /\ calls[n] = "subtitles" => "artwork" \in before(n)

\* the place of a step of scrape_logs in the order of the statements
StepRank(name) ==
    CASE name = "parse" -> 1
      [] name = "search" -> 2
      [] name = "detail" -> 3
      [] name = "select" -> 4
      [] name = "emby" -> 5
      [] name = "nfo" -> 6
      [] name = "move" -> 7
      [] name = "image" -> 8

\* the steps of scrape_logs are in the order in which they were executed
StepsInOrder ==
    \A i, j \in 1..Len(scrape.scrape_logs) :
        i < j => StepRank(scrape.scrape_logs[i].name)
                    < StepRank(scrape.scrape_logs[j].name)

\* C23 as stated: in every scrape_file run the collaborators are invoked in
\* the order parser, MDB client, conflict oracle, NFO generator, placement,
\* artwork, subtitles, none before the earlier ones have finished, and the
\* steps of scrape_logs are in the order of execution.
C23_FixedCallOrder ==
    ScrapeFileRun =>
        /\ \A i, j \in 1..Len(scrape.calls) :
              i < j => Rank(scrape.calls[i]) <= Rank(scrape.calls[j])
        /\ PredecessorsCalled(scrape.calls)
        /\ StepsInOrder

\* C23: the collaborators are invoked in the order parser, MDB client,
\* conflict oracle, NFO generator for the episode, placement, NFO generator
\* for tvshow.nfo and season.nfo, artwork, subtitles, none before the
\* earlier ones have finished, and the steps of scrape_logs are in the order
\* of execution.
C23_CallOrderWithFolderNfo ==
    ScrapeFileRun =>
        /\ \A i, j \in 1..Len(scrape.calls) :
              i < j => RankWithFolderNfo(scrape.calls[i])
                          <= RankWithFolderNfo(scrape.calls[j])
        /\ PredecessorsCalled(scrape.calls)
        /\ StepsInOrder

\* a run went through every collaborator, the generator of tvshow.nfo
\* included
C23_Witness ==
    /\ scrape.pc = "returned"
    /\ scrape.status = ST_SUCCESS
    /\ "tvshow_nfo" \in Range(scrape.calls)
    /\ "search" \in Range(scrape.calls)
    /\ scrape.calls[Len(scrape.calls)] = "subtitles"


(* -------------------- the log statements of scrape_file --------------- *)

\* one statement of scrape_file that matters to the logs: what it does, the
\* step it works on, and the lines that can come next
LogStmt(op, step, next) == [op |-> op, step |-> step, next |-> next]

\* a line that stands for an exception leaving scrape_file
Escapes == 636

\* lines 209-635 of scrape_file: step.logs.append ("entry"),
\* scrape_logs.append ("step"), await notify_log_update() ("notify"), a
\* test or a call of a collaborator with its outcomes ("branch"), return
\* result ("return")
LogStatements ==
       209 :> LogStmt("branch", NoText, {210, 218})
    @@ 210 :> LogStmt("return", NoText, {})
    @@ 218 :> LogStmt("entry", "parse", {229})
    @@ 229 :> LogStmt("branch", NoText, {230, 239})
    @@ 230 :> LogStmt("entry", "parse", {232})
    @@ 232 :> LogStmt("step", "parse", {233})
    @@ 233 :> LogStmt("notify", NoText, {237})
    @@ 237 :> LogStmt("return", NoText, {})
    @@ 239 :> LogStmt("branch", NoText, {240, 242})
    @@ 240 :> LogStmt("entry", "parse", {243})
    @@ 242 :> LogStmt("entry", "parse", {243})
    @@ 243 :> LogStmt("step", "parse", {244})
    @@ 244 :> LogStmt("notify", NoText, {247})
    @@ 247 :> LogStmt("branch", NoText, {250, 257})
    @@ 250 :> LogStmt("entry", "search", {251})
    @@ 251 :> LogStmt("step", "search", {252})
    @@ 252 :> LogStmt("notify", NoText, {324})
    @@ 257 :> LogStmt("entry", "search", {258})
    @@ 258 :> LogStmt("step", "search", {259})
    @@ 259 :> LogStmt("notify", NoText, {262})
    @@ 262 :> LogStmt("branch", NoText, {266, 269, 277, Escapes})
    @@ 266 :> LogStmt("entry", "search", {267})
    @@ 267 :> LogStmt("notify", NoText, {285})
    @@ 269 :> LogStmt("entry", "search", {271})
    @@ 271 :> LogStmt("notify", NoText, {275})
    @@ 275 :> LogStmt("return", NoText, {})
    @@ 277 :> LogStmt("entry", "search", {279})
    @@ 279 :> LogStmt("notify", NoText, {283})
    @@ 283 :> LogStmt("return", NoText, {})
    @@ 285 :> LogStmt("branch", NoText, {286, 297})
    @@ 286 :> LogStmt("entry", "search", {288})
    @@ 288 :> LogStmt("notify", NoText, {292})
    @@ 292 :> LogStmt("return", NoText, {})
    @@ 297 :> LogStmt("branch", NoText, {303, 313, 324})
    @@ 303 :> LogStmt("entry", "search", {304})
    @@ 304 :> LogStmt("notify", NoText, {305})
    @@ 305 :> LogStmt("branch", NoText, {310, Escapes})
    @@ 310 :> LogStmt("return", NoText, {})
    @@ 313 :> LogStmt("entry", "search", {314})
    @@ 314 :> LogStmt("notify", NoText, {315})
    @@ 315 :> LogStmt("branch", NoText, {320, Escapes})
    @@ 320 :> LogStmt("return", NoText, {})
    @@ 324 :> LogStmt("entry", "detail", {325})
    @@ 325 :> LogStmt("step", "detail", {326})
    @@ 326 :> LogStmt("notify", NoText, {329})
    @@ 329 :> LogStmt("branch", NoText, {331, 339, 342, 350, 358, Escapes})
    @@ 331 :> LogStmt("entry", "detail", {333})
    @@ 333 :> LogStmt("notify", NoText, {337})
    @@ 337 :> LogStmt("return", NoText, {})
    @@ 339 :> LogStmt("entry", "detail", {340})
    @@ 340 :> LogStmt("notify", NoText, {367})
    @@ 342 :> LogStmt("entry", "detail", {344})
    @@ 344 :> LogStmt("notify", NoText, {348})
    @@ 348 :> LogStmt("return", NoText, {})
    @@ 350 :> LogStmt("entry", "detail", {352})
    @@ 352 :> LogStmt("notify", NoText, {356})
    @@ 356 :> LogStmt("return", NoText, {})
    @@ 358 :> LogStmt("entry", "detail", {360})
    @@ 360 :> LogStmt("notify", NoText, {364})
    @@ 364 :> LogStmt("return", NoText, {})
    @@ 367 :> LogStmt("branch", NoText, {378, 401})
    @@ 378 :> LogStmt("branch", NoText, {393})
    @@ 393 :> LogStmt("return", NoText, {})
    @@ 401 :> LogStmt("step", "select", {402})
    @@ 402 :> LogStmt("branch", NoText, {403, 410})
    @@ 403 :> LogStmt("entry", "select", {411})
    @@ 410 :> LogStmt("entry", "select", {411})
    @@ 411 :> LogStmt("notify", NoText, {416})
    @@ 416 :> LogStmt("branch", NoText, {425})
    @@ 425 :> LogStmt("step", "emby", {427})
    @@ 427 :> LogStmt("branch", NoText, {439, 451, 456})
    @@ 439 :> LogStmt("entry", "emby", {444})
    @@ 444 :> LogStmt("notify", NoText, {449})
    @@ 449 :> LogStmt("return", NoText, {})
    @@ 451 :> LogStmt("entry", "emby", {457})
    @@ 456 :> LogStmt("entry", "emby", {457})
    @@ 457 :> LogStmt("notify", NoText, {461})
    @@ 461 :> LogStmt("step", "nfo", {463})
    @@ 463 :> LogStmt("branch", NoText, {464, 467})
    @@ 464 :> LogStmt("entry", "nfo", {465})
    @@ 465 :> LogStmt("notify", NoText, {478})
    @@ 467 :> LogStmt("entry", "nfo", {469})
    @@ 469 :> LogStmt("notify", NoText, {473})
    @@ 473 :> LogStmt("return", NoText, {})
    @@ 478 :> LogStmt("step", "move", {483})
    @@ 483 :> LogStmt("branch", NoText, {486, 502, 612})
    @@ 486 :> LogStmt("entry", "move", {502})
    @@ 502 :> LogStmt("entry", "move", {503})
    @@ 503 :> LogStmt("entry", "move", {504})
    @@ 504 :> LogStmt("entry", "move", {505})
    @@ 505 :> LogStmt("notify", NoText, {507})
    @@ 507 :> LogStmt("branch", NoText, {512, 520, 529, 612})
    @@ 512 :> LogStmt("entry", "move", {514})
    @@ 514 :> LogStmt("notify", NoText, {519})
    @@ 519 :> LogStmt("return", NoText, {})
    @@ 520 :> LogStmt("entry", "move", {522})
    @@ 522 :> LogStmt("notify", NoText, {526})
    @@ 526 :> LogStmt("return", NoText, {})
    @@ 529 :> LogStmt("entry", "move", {530})
    @@ 530 :> LogStmt("notify", NoText, {550})
    @@ 550 :> LogStmt("branch", NoText, {553, 574, 612})
    @@ 553 :> LogStmt("branch", NoText, {555, 612})
    @@ 555 :> LogStmt("entry", "move", {559})
    @@ 559 :> LogStmt("branch", NoText, {563, 568})
    @@ 563 :> LogStmt("branch", NoText, {564, 612})
    @@ 564 :> LogStmt("entry", "move", {568})
    @@ 568 :> LogStmt("branch", NoText, {571, 576})
    @@ 571 :> LogStmt("branch", NoText, {572, 612})
    @@ 572 :> LogStmt("entry", "move", {576})
    @@ 574 :> LogStmt("entry", "move", {576})
    @@ 576 :> LogStmt("notify", NoText, {580})
    @@ 580 :> LogStmt("step", "image", {581})
    @@ 581 :> LogStmt("notify", NoText, {583})
    @@ 583 :> LogStmt("branch", NoText, {587, 595, 612})
    @@ 587 :> LogStmt("branch", NoText, {593, 612})
    @@ 593 :> LogStmt("entry", "image", {596})
    @@ 595 :> LogStmt("entry", "image", {596})
    @@ 596 :> LogStmt("notify", NoText, {599})
    @@ 599 :> LogStmt("branch", NoText, {600, 605})
    @@ 600 :> LogStmt("branch", NoText, {603, 612})
    @@ 603 :> LogStmt("entry", "image", {606})
    @@ 605 :> LogStmt("entry", "image", {606})
    @@ 606 :> LogStmt("notify", NoText, {609})
    @@ 609 :> LogStmt("branch", NoText, {612, 634})
    @@ 612 :> LogStmt("entry", "move", {614})
    @@ 614 :> LogStmt("notify", NoText, {618})
    @@ 618 :> LogStmt("return", NoText, {})
    @@ 634 :> LogStmt("notify", NoText, {635})
    @@ 635 :> LogStmt("return", NoText, {})
    @@ Escapes :> LogStmt("raise", NoText, {})

\* the names of the steps of scrape_file
StepNames == {"parse", "search", "detail", "select", "emby", "nfo", "move", "image"}

\* what a caller sees in a list of steps: the steps in order, each with the
\* number of its entries
Listing(listed, entries) ==
    [k \in 1..Len(listed) |-> [name |-> listed[k], entries |-> entries[listed[k]]]]

\* a call of scrape_file at its first statement: whether on_log_update is
\* given and whether the parser finds an id in the path
NewCall(on_log_update, tmdb_id) ==
    [pc |-> 209, on_log_update |-> on_log_update, path_id |-> tmdb_id,
     entries |-> [name \in StepNames |-> 0], listed |-> <<>>,
     delivered |-> <<>>, invocations |-> 0, pending |-> 0, batch |-> 0,
     returned |-> FALSE, result_logs |-> <<>>]

\* a callback that is never invoked
NotifyDropped(call) == [call EXCEPT !.pending = 0]

\* lines 203-206: notify_log_update hands the list of steps, as it is now,
\* to on_log_update when one was given
notify_log_update(call) ==
    IF call.on_log_update
    THEN [call EXCEPT !.delivered = Listing(call.listed, call.entries),
                      !.invocations = @ + 1,
                      !.batch = call.pending,
                      !.pending = 0]
    ELSE call

\* lines 239 and 247 test the same parsed.tmdb_id
Feasible(call, line) ==
    /\ line \in {240, 250} => call.path_id
    /\ line \in {242, 257} => ~call.path_id

\* the statement at which the call stands
AtStmt(op) ==
    /\ scrape.pc \in DOMAIN LogStatements
    /\ ~scrape.returned
    /\ LogStatements[scrape.pc].op = op

\* the call goes on to one of the next lines of its statement
GoOn(call) ==
    \E line \in LogStatements[scrape.pc].next :
        /\ Feasible(call, line)
        /\ scrape' = [call EXCEPT !.pc = line]

\* step.logs.append(ScrapeLogEntry(...)): an append to the logs that the
\* caller can see when the step is in scrape_logs
LogEntry ==
    /\ AtStmt("entry")
    /\ LET step == LogStatements[scrape.pc].step
           visible == \E k \in 1..Len(scrape.listed) : scrape.listed[k] = step
       IN  GoOn([scrape EXCEPT !.entries[step] = @ + 1,
                               !.pending = IF visible THEN @ + 1 ELSE @])
    /\ UNCHANGED jobVars

\* scrape_logs.append(step)
LogStep ==
    /\ AtStmt("step")
    /\ GoOn([scrape EXCEPT !.listed = Append(@, LogStatements[scrape.pc].step),
                           !.pending = @ + 1])
    /\ UNCHANGED jobVars

\* await notify_log_update()
LogNotify ==
    /\ AtStmt("notify")
    /\ GoOn(notify_log_update(scrape))
    /\ UNCHANGED jobVars

\* a test, or a collaborator that returns or raises
LogBranch ==
    /\ AtStmt("branch")
    /\ GoOn(scrape)
    /\ UNCHANGED jobVars

\* result.scrape_logs = scrape_logs; return result (line 210 returns a
\* result without steps)
LogReturn ==
    /\ AtStmt("return")
    /\ scrape' = [scrape EXCEPT !.returned = TRUE,
                     !.result_logs = Listing(scrape.listed, scrape.entries)]
    /\ UNCHANGED jobVars

InitLog ==
    /\ JobsInit
    /\ fs = <<>>
    /\ events = 0
    /\ \E on_log_update \in BOOLEAN, tmdb_id \in BOOLEAN :
         scrape = NewCall(on_log_update, tmdb_id)

NextLog ==
    \/ LogEntry
    \/ LogStep
    \/ LogNotify
    \/ LogBranch
    \/ LogReturn

SpecLog == InitLog /\ [][NextLog]_vars

\* the list a extends the list b: the steps of b in the same order, none
\* with fewer entries
Extends(a, b) ==
    /\ Len(a) >= Len(b)
    /\ \A k \in 1..Len(b) :
          a[k].name = b[k].name /\ a[k].entries >= b[k].entries

\* C24 as stated: with on_log_update given, the callback is invoked after
\* each append to the logs, a new step or a new entry, so that no invocation
\* delivers more than one append; every list delivered extends the one
\* before, and at the return every entry of result.scrape_logs has been
\* delivered.
C24_CallbackAfterEachAppend ==
    [][ scrape.on_log_update =>
          /\ scrape'.pending <= 1
          /\ Extends(scrape'.delivered, scrape.delivered)
          /\ scrape'.returned => scrape'.delivered = scrape'.result_logs
      ]_vars

\* C24: with on_log_update given, each invocation of the callback hands
\* over the accumulated list of steps with all the appends made since the
\* invocation before; every list delivered extends the one before, and at
\* the return no append is left undelivered: every entry of
\* result.scrape_logs has been delivered.
C24_CallbackDeliversAll ==
    [][ scrape.on_log_update =>
          /\ (scrape'.invocations # scrape.invocations) =>
                scrape'.delivered = Listing(scrape.listed, scrape.entries)
          /\ Extends(scrape'.delivered, scrape.delivered)
          /\ scrape'.returned =>
                /\ scrape'.pending = 0
                /\ scrape'.delivered = scrape'.result_logs
      ]_vars

\* a call with on_log_update returned after the artwork step, and its last
\* steps were delivered
C24_Witness ==
    /\ scrape.on_log_update
    /\ scrape.returned
    /\ Len(scrape.result_logs) = Cardinality(StepNames)
    /\ scrape.delivered = scrape.result_logs

\* an invocation of the callback delivered several appends at once
SeveralAppendsDelivered ==
    /\ scrape.on_log_update
    /\ scrape.batch > 1


(* ----------------------- dry run and execution ------------------------ *)

\* a path as text: its components with "/" between them; the empty text
\* for no component
RECURSIVE Str(_)
Str(path) ==
    IF path = <<>> THEN <<>>
    ELSE IF Len(path) = 1 THEN path[1]
    ELSE path[1] \o <<"/">> \o Str(Tail(path))

\* Path(text): the components between the separators, empty ones dropped
RECURSIVE SplitPath(_, _)
SplitPath(text, component) ==
    IF text = <<>>
    THEN IF component = <<>> THEN <<>> ELSE <<component>>
    ELSE IF Head(text) = "/"
    THEN (IF component = <<>> THEN <<>> ELSE <<component>>)
         \o SplitPath(Tail(text), <<>>)
    ELSE SplitPath(Tail(text), Append(component, Head(text)))
PathOf(text) == SplitPath(text, <<>>)

\* RenameRequest: the source, the names and numbers of the destination,
\* the output directory (the empty text when none is given)
RenameRequests ==
    [source_path : {Str(<<<<"downloads">>, <<"Show.S02E03", ".mkv">>>>)},
     title : {"Show", "Other Show"},
     season : SeasonNums,
     episode : EpisodeNums,
     year : {None, 2020},
     tmdb_id : {None, PathTmdbId},
     output_dir : {<<>>, Str(<<<<"library">>>>)}]

\* str(n) of a number that is not negative
RECURSIVE Decimal(_)
Decimal(n) ==
    LET digit == <<"0", "1", "2", "3", "4", "5", "6", "7", "8", "9">>[(n % 10) + 1]
    IN  IF n < 10 THEN <<digit>> ELSE Append(Decimal(n \div 10), digit)

\* "{n:02d}"
TwoDigits(n) == IF n < 10 THEN <<"0">> \o Decimal(n) ELSE Decimal(n)

\* series_folder "{title} ({year}) [tmdbid-{tmdb_id}]" with " ()" and
\* " [tmdbid-]" removed (lines 51-58)
SeriesFolder(request) ==
    <<request.title>>
    \o (IF request.year = None THEN <<>>
        ELSE <<" (">> \o Decimal(request.year) \o <<")">>)
    \o (IF request.tmdb_id = None THEN <<>>
        ELSE <<" [tmdbid-">> \o Decimal(request.tmdb_id) \o <<"]">>)

\* season_folder "Season {season}"
SeasonFolder(request) == <<"Season ">> \o Decimal(request.season)

\* episode_file "{title} - S{season:02d}E{episode:02d} - {episode_title}"
\* with the extension of the source; scrape_file gives no episode title,
\* and sanitize_filename takes the space left at the end
EpisodeFile(request) ==
    LET source == PathOf(request.source_path)
        name == source[Len(source)]
    IN  <<request.title, " - S">> \o TwoDigits(request.season)
        \o <<"E">> \o TwoDigits(request.episode) \o <<" -", name[Len(name)]>>

\* RenameService.preview_rename: the destination under output_dir, or under
\* the folder of the source when no output_dir is given
preview_rename(request) ==
    LET source_path == PathOf(request.source_path)
        base_dir == IF request.output_dir # <<>>
                    THEN PathOf(request.output_dir)
                    ELSE SubSeq(source_path, 1, Len(source_path) - 1)
        dest_folder == base_dir \o <<SeriesFolder(request), SeasonFolder(request)>>
        dest_path == Append(dest_folder, EpisodeFile(request))
    IN  [source_path |-> Str(source_path),
         dest_path |-> Str(dest_path),
         dest_folder |-> Str(dest_folder)]

\* a result that never names a destination
EmptyDestPath(request, source_exists) == <<>>

\* the dest_path of the RenameResult of execute_rename: "" when the source
\* is missing (lines 108-115), else str(Path(preview.dest_path)) in every
\* return (lines 118-173)
ReportedDestPath(request, source_exists) ==
    IF ~source_exists THEN <<>>
    ELSE Str(PathOf(preview_rename(request).dest_path))

\* a rename request and what the file system holds for it
NewRename(request, source_exists, dest_found, link_mode, fault) ==
    [pc |-> "rename_request", request |-> request,
     source_exists |-> source_exists, dest_found |-> dest_found,
     link_mode |-> link_mode, fault |-> fault,
     previewed |-> FALSE, preview_dest_path |-> <<>>,
     executed |-> FALSE, success |-> FALSE, error |-> NoText,
     dest_path |-> <<>>]

\* preview_rename(request)
PreviewRename ==
    /\ scrape.pc = "rename_request"
    /\ ~scrape.previewed
    /\ scrape' = [scrape EXCEPT !.previewed = TRUE,
                     !.preview_dest_path = preview_rename(scrape.request).dest_path]
    /\ UNCHANGED jobVars

\* execute_rename(request)
ExecuteRename ==
    /\ scrape.pc = "rename_request"
    /\ ~scrape.executed
    /\ LET outcome ==
               IF ~scrape.source_exists
               THEN [success |-> FALSE, error |-> "Source file not found"]
               ELSE execute_rename(scrape.dest_found, scrape.link_mode, scrape.fault)
       IN  scrape' = [scrape EXCEPT
                         !.executed = TRUE,
                         !.success = outcome.success,
                         !.error = outcome.error,
                         !.dest_path = ReportedDestPath(scrape.request,
                                                        scrape.source_exists)]
    /\ UNCHANGED jobVars

InitRename ==
    /\ JobsInit
    /\ fs = <<>>
    /\ events = 0
    /\ \E request \in RenameRequests, source_exists \in BOOLEAN,
          dest_found \in DestStates, link_mode \in OrganizeMode \ {INPLACE},
          fault \in RenameFaults :
         scrape = NewRename(request, source_exists, dest_found, link_mode, fault)

NextRename ==
    \/ PreviewRename
    \/ ExecuteRename

SpecRename == InitRename /\ [][NextRename]_vars

\* C25 as stated: the dest_path that execute_rename reports is the one that
\* preview_rename computes for the same request, on success and on every
\* failure.
C25_ExecuteReportsPreviewPath ==
    (scrape.previewed /\ scrape.executed) =>
        scrape.dest_path = scrape.preview_dest_path

\* C25: the dest_path that execute_rename reports is the one that
\* preview_rename computes for the same request, on success and on every
\* failure of a source that exists; for a missing source it is the empty
\* text.
C25_ExecuteReportsPreviewPathOfSource ==
    (scrape.previewed /\ scrape.executed) =>
        /\ scrape.source_exists => scrape.dest_path = scrape.preview_dest_path
        /\ ~scrape.source_exists =>
              scrape.dest_path = <<>> /\ scrape.preview_dest_path # <<>>

\* a rename that failed on a taken destination, previewed as well
C25_Witness ==
    /\ scrape.previewed
    /\ scrape.executed
    /\ scrape.source_exists
    /\ ~scrape.success
    /\ scrape.error = "Destination file already exists"
    /\ scrape.dest_path # <<>>


(* ------------------------- sanitize_filename -------------------------- *)

\* longest file name sanitized
MaxLen == 3

TAB == "\t"
\* a letter, the space, the tab, the dot and one of the invalid characters
Chars == {"a", " ", TAB, ".", ":"}

\* invalid_chars (line 204); "\\" is the backslash
InvalidChars == {"<", ">", ":", "\"", "/", "\\", "|", "?", "*"}

\* what \s matches
Whitespace == {" ", TAB}

\* what strip(" .") takes
Stripped == {" ", "."}

\* the file names of at most n characters
RECURSIVE Filenames(_)
Filenames(n) ==
    IF n = 0 THEN {<<>>}
    ELSE Filenames(n - 1)
         \cup {Append(name, char) : name \in {f \in Filenames(n - 1) : Len(f) = n - 1},
                                    char \in Chars}

\* result.replace(char, "") for every char of invalid_chars (lines 206-207)
RECURSIVE RemoveInvalid(_)
RemoveInvalid(filename) ==
    IF filename = <<>> THEN <<>>
    ELSE IF Head(filename) \in InvalidChars THEN RemoveInvalid(Tail(filename))
    ELSE <<Head(filename)>> \o RemoveInvalid(Tail(filename))

RECURSIVE LStrip(_, _)
LStrip(text, chars) ==
    IF text # <<>> /\ Head(text) \in chars THEN LStrip(Tail(text), chars) ELSE text

RECURSIVE RStrip(_, _)
RStrip(text, chars) ==
    IF text # <<>> /\ text[Len(text)] \in chars
    THEN RStrip(SubSeq(text, 1, Len(text) - 1), chars)
    ELSE text

\* str.strip(chars)
Strip(text, chars) == RStrip(LStrip(text, chars), chars)

\* re.sub(r"\s+", " ", text)
RECURSIVE CollapseWhitespace(_)
CollapseWhitespace(text) ==
    IF text = <<>> THEN <<>>
    ELSE IF Head(text) \in Whitespace
    THEN <<" ">> \o CollapseWhitespace(LStrip(text, Whitespace))
    ELSE <<Head(text)>> \o CollapseWhitespace(Tail(text))

\* TemplateService.sanitize_filename: the invalid characters removed, then
\* spaces and dots stripped from the ends, then every run of whitespace
\* replaced by one space
sanitize_filename(filename) ==
    CollapseWhitespace(Strip(RemoveInvalid(filename), Stripped))

\* a file name and what sanitize_filename made of it
NewSanitize(filename) ==
    [pc |-> "filename", filename |-> filename, result |-> filename, times |-> 0]

\* sanitize_filename applied to the name, and to its own result
Sanitize ==
    /\ scrape.pc = "filename"
    /\ scrape.times < 2
    /\ scrape' = [scrape EXCEPT !.result = sanitize_filename(scrape.result),
                                !.times = scrape.times + 1]
    /\ UNCHANGED jobVars

InitSanitize ==
    /\ JobsInit
    /\ fs = <<>>
    /\ events = 0
    /\ \E filename \in Filenames(MaxLen) : scrape = NewSanitize(filename)

NextSanitize == Sanitize

SpecSanitize == InitSanitize /\ [][NextSanitize]_vars

\* C26: sanitize_filename is idempotent: sanitizing a sanitized name
\* changes nothing.
C26_SanitizeIdempotent ==
    [][(scrape.times = 1 /\ scrape'.times = 2) =>
          scrape'.result = scrape.result]_vars

\* A name without a tab is sanitized to a fixed point.
SanitizeIdempotentWithoutTab ==
    [][(/\ scrape.times = 1
        /\ scrape'.times = 2
        /\ \A i \in 1..Len(scrape.filename) : scrape.filename[i] # TAB) =>
          scrape'.result = scrape.result]_vars

\* No result begins or ends with a space (refuted by "a\t", which gives "a ").
SanitizeLeavesSpaceAtEnd ==
    scrape.times = 1 =>
        (scrape.result = <<>>
         \/ (Head(scrape.result) # " " /\ scrape.result[Len(scrape.result)] # " "))


(* ------------------------ search with fallback ------------------------ *)

\* longest query searched, in pieces
MaxQueryLen == 3

\* the masking circle (U+3007 or U+25CB)
MASK == "maru"
\* a hiragana character
KANA == "su"
\* a word of two characters that no pattern matches
WORD == "shichinin"
OPEN == "("
CLOSE == ")"
SPACE == " "
OVA == "OVA"
DIGIT == "1"
\* a volume mark of two characters (volume_pat, lines 379-383)
VOLUME == "gekan"

\* the pieces of a query: pieces that no pattern of
\* _generate_fallback_queries splits
Pieces == {MASK, KANA, WORD, OPEN, CLOSE, SPACE, OVA, DIGIT, VOLUME}

\* len() of a piece
PieceLen(piece) == IF piece = OVA THEN 3 ELSE IF piece \in {WORD, VOLUME} THEN 2 ELSE 1

\* len(q)
RECURSIVE CharLen(_)
CharLen(q) == IF q = <<>> THEN 0 ELSE PieceLen(Head(q)) + CharLen(Tail(q))

\* the queries of at most n pieces
RECURSIVE Queries(_)
Queries(n) ==
    IF n = 0 THEN {<<>>}
    ELSE Queries(n - 1)
         \cup {Append(q, piece) : q \in {p \in Queries(n - 1) : Len(p) = n - 1},
                                  piece \in Pieces}

\* re.sub of line 361: every run of masking circles removed
RECURSIVE RemoveMasks(_)
RemoveMasks(q) ==
    IF q = <<>> THEN <<>>
    ELSE IF Head(q) = MASK THEN RemoveMasks(Tail(q))
    ELSE <<Head(q)>> \o RemoveMasks(Tail(q))

\* the text after the first closing bracket
RECURSIVE AfterClose(_)
AfterClose(q) == IF Head(q) = CLOSE THEN Tail(q) ELSE AfterClose(Tail(q))

\* re.sub of line 365: an opening bracket and
\* everything up to the next closing bracket become one space
RECURSIVE RemoveBrackets(_)
RemoveBrackets(q) ==
    IF q = <<>> THEN <<>>
    ELSE IF Head(q) = OPEN /\ \E i \in 1..Len(Tail(q)) : Tail(q)[i] = CLOSE
    THEN <<SPACE>> \o RemoveBrackets(AfterClose(Tail(q)))
    ELSE <<Head(q)>> \o RemoveBrackets(Tail(q))

\* re.sub of line 374: the masking circles at the start and the hiragana
\* after them removed
RemoveMaskedVerb(q) ==
    IF q # <<>> /\ Head(q) = MASK THEN LStrip(LStrip(q, {MASK}), {KANA}) ELSE q

\* re.sub(volume_pat, "", q)
RECURSIVE RemoveVolumes(_)
RemoveVolumes(q) ==
    IF q = <<>> THEN <<>>
    ELSE IF Head(q) = VOLUME THEN RemoveVolumes(Tail(q))
    ELSE <<Head(q)>> \o RemoveVolumes(Tail(q))

\* re.sub(r"^(?:OVA|OAD|ONA)\s+", "", q, flags=re.I)
RemovePrefix(q) ==
    IF Len(q) >= 2 /\ q[1] = OVA /\ q[2] = SPACE THEN LStrip(Tail(q), {SPACE}) ELSE q

\* re.sub(r"\s+\d+\s*$", "", q): the digits at the end, with the whitespace
\* before them and after them
RemoveEpisodeNumber(q) ==
    LET no_space == RStrip(q, {SPACE})
        no_digits == RStrip(no_space, {DIGIT})
        before == RStrip(no_digits, {SPACE})
    IN  IF no_digits # no_space /\ before # no_digits THEN before ELSE q

\* re.sub(r"\s+", " ", q).strip()
Normalized(q) == Strip(CollapseWhitespace(q), {SPACE})

\* add() that takes a candidate again
AddAgain(candidates, query, q) ==
    LET n == Normalized(q)
    IN  IF n # <<>> /\ CharLen(n) >= 2 THEN Append(candidates, n) ELSE candidates

\* add() of _generate_fallback_queries (lines 354-358); seen is the query
\* and the candidates so far
add(candidates, query, q) ==
    LET n == Normalized(q)
        seen == {query} \cup {candidates[i] : i \in 1..Len(candidates)}
    IN  IF n # <<>> /\ n \notin seen /\ CharLen(n) >= 2
        THEN Append(candidates, n)
        ELSE candidates

\* TMDBService._generate_fallback_queries: the nine strategies in order
_generate_fallback_queries(query) ==
    LET q1 == RemoveMasks(query)
        q2 == RemoveBrackets(query)
        q3 == RemoveMasks(q2)
        q4 == RemoveMaskedVerb(query)
        q5 == Strip(RemoveVolumes(query), {SPACE})
        q6 == Normalized(RemoveBrackets(RemoveMasks(q5)))
        q7 == RemovePrefix(query)
        q8 == Strip(RemoveEpisodeNumber(query), {SPACE})
        q9 == RemovePrefix(q8)
        c1 == add(<<>>, query, q1)
        c2 == add(c1, query, q2)
        c3 == add(c2, query, q3)
        c4 == add(c3, query, q4)
        c5 == add(c4, query, q5)
        c6 == add(c5, query, q6)
        c7 == add(c6, query, q7)
        c8 == add(c7, query, q8)
    IN  add(c8, query, q9)

\* TMDBSearchResponse; effective_query is <<>> when it is not set, else
\* the one query in it
TMDBSearchResponse(query, total_results, results, effective_query) ==
    [query |-> query, total_results |-> total_results, results |-> results,
     effective_query |-> effective_query]

\* what the MDB answers to /search/tv: the status, and the results and
\* total_results of the body
ApiAnswers ==
    {[status_code |-> 200, total_results |-> 0, results |-> <<>>],
     [status_code |-> 200, total_results |-> 40, results |-> <<TMDBSearchResult(1, TRUE)>>],
     [status_code |-> 500, total_results |-> 1, results |-> <<TMDBSearchResult(1, TRUE)>>]}

\* search_series_by_api as a response: empty when the status is not 200
\* (lines 306-307), else the results and total_results of the body
SearchResponse(query, answer) ==
    IF answer.status_code # 200
    THEN TMDBSearchResponse(query, 0, <<>>, <<>>)
    ELSE TMDBSearchResponse(query, answer.total_results, answer.results, <<>>)

\* a primary response that names its query as effective_query
TaggedResponse(result) == [result EXCEPT !.effective_query = <<result.query>>]

\* line 424: 'return result'
PrimaryResponse(result) == result

\* lines 430-435: the response for a candidate that matched
FallbackResponse(query, fallback, candidate) ==
    TMDBSearchResponse(query, fallback.total_results, fallback.results, <<candidate>>)

\* a call of search_series_with_fallback(query): the queries sent so far
\* and the responses to them
NewSearch(query) ==
    [pc |-> "primary", query |-> query, candidates |-> <<>>, next |-> 1,
     requests |-> <<>>, responses |-> <<>>, response |-> TMDBSearchResponse(query, 0, <<>>, <<>>)]

\* a search_series_by_api call that raises (lines 337-340): the error
\* leaves search_series_with_fallback as well
SearchRaises ==
    /\ scrape.pc \in {"primary", "candidates"}
    /\ scrape.pc = "candidates" => scrape.next <= Len(scrape.candidates)
    /\ LET q == IF scrape.pc = "primary" THEN scrape.query
                ELSE scrape.candidates[scrape.next]
       IN  scrape' = [scrape EXCEPT !.pc = "raised", !.requests = Append(@, q)]
    /\ UNCHANGED jobVars

\* lines 422-427: the search for the query itself
PrimarySearch ==
    /\ scrape.pc = "primary"
    /\ \E answer \in ApiAnswers :
         LET result == SearchResponse(scrape.query, answer)
             asked == [scrape EXCEPT !.requests = Append(@, scrape.query),
                                     !.responses = Append(@, result)]
         IN  scrape' = IF result.results # <<>>
                       THEN [asked EXCEPT !.pc = "returned",
                                          !.response = PrimaryResponse(result)]
                       ELSE [asked EXCEPT !.pc = "candidates",
                                          !.candidates = _generate_fallback_queries(scrape.query)]
    /\ UNCHANGED jobVars

\* lines 427-435: the search for the next candidate
CandidateSearch ==
    /\ scrape.pc = "candidates"
    /\ scrape.next <= Len(scrape.candidates)
    /\ \E answer \in ApiAnswers :
         LET candidate == scrape.candidates[scrape.next]
             fallback == SearchResponse(candidate, answer)
             asked == [scrape EXCEPT !.requests = Append(@, candidate),
                                     !.responses = Append(@, fallback)]
         IN  scrape' = IF fallback.results # <<>>
                       THEN [asked EXCEPT !.pc = "returned",
                                          !.response = FallbackResponse(scrape.query, fallback, candidate)]
                       ELSE [asked EXCEPT !.next = @ + 1]
    /\ UNCHANGED jobVars

\* line 438: no candidate is left
NoMatch ==
    /\ scrape.pc = "candidates"
    /\ scrape.next > Len(scrape.candidates)
    /\ scrape' = [scrape EXCEPT !.pc = "returned",
                     !.response = TMDBSearchResponse(scrape.query, 0, <<>>, <<>>)]
    /\ UNCHANGED jobVars

InitSearch ==
    /\ JobsInit
    /\ fs = <<>>
    /\ events = 0
    /\ \E query \in Queries(MaxQueryLen) : scrape = NewSearch(query)

NextSearch ==
    \/ PrimarySearch
    \/ CandidateSearch
    \/ NoMatch
    \/ SearchRaises

SpecSearch == InitSearch /\ [][NextSearch]_vars

\* C27: when the primary search has a result, search_series_with_fallback
\* returns the response of search_series_by_api for the query (the same
\* results and total, no effective_query) and sends no other search.
C27_PrimaryMatchReturned ==
    (/\ scrape.pc = "returned"
     /\ scrape.responses[1].results # <<>>) =>
        /\ scrape.response = scrape.responses[1]
        /\ scrape.response.effective_query = <<>>
        /\ scrape.requests = <<scrape.query>>

\* a call that returned the results of the primary search
C27_Witness ==
    /\ scrape.pc = "returned"
    /\ scrape.responses[1].results # <<>>
    /\ scrape.response.results # <<>>
    /\ scrape.response.total_results = 40

\* the candidates asked so far: the requests after the first
Asked == SubSeq(scrape.requests, 2, Len(scrape.requests))

\* C28: when the primary search is empty, the candidates are searched one
\* at a time in the order of their generation, up to the first with a
\* result; its results are returned with effective_query set to it and
\* query to the original. No candidate is searched twice, none is the
\* original query, each has two characters or more, and when all are empty
\* the response is empty without effective_query.
C28_FallbackInOrder ==
    (scrape.pc \in {"candidates", "returned", "raised"}
     /\ Len(scrape.requests) >= 1 /\ scrape.responses # <<>>
     /\ scrape.responses[1].results = <<>>) =>
        LET generated == _generate_fallback_queries(scrape.query)
        IN  /\ Len(Asked) <= Len(generated)
            /\ Asked = SubSeq(generated, 1, Len(Asked))
            /\ \A i, j \in 1..Len(Asked) : Asked[i] = Asked[j] => i = j
            /\ \A i \in 1..Len(Asked) :
                  /\ Asked[i] # scrape.query
                  /\ CharLen(Asked[i]) >= 2
            /\ \A i \in 2..Len(scrape.responses) :
                  scrape.responses[i].results # <<>> =>
                      i = Len(scrape.responses) /\ scrape.pc = "returned"
            /\ scrape.pc = "returned" =>
                  LET last == scrape.responses[Len(scrape.responses)]
                  IN  /\ scrape.response.query = scrape.query
                      /\ IF last.results # <<>>
                         THEN /\ Len(scrape.responses) >= 2
                              /\ scrape.response.results = last.results
                              /\ scrape.response.total_results = last.total_results
                              /\ scrape.response.effective_query
                                    = <<Asked[Len(Asked)]>>
                         ELSE /\ Asked = generated
                              /\ scrape.response.results = <<>>
                              /\ scrape.response.total_results = 0
                              /\ scrape.response.effective_query = <<>>

\* a call that returned the results of its second candidate
C28_Witness ==
    /\ scrape.pc = "returned"
    /\ Len(scrape.requests) = 3
    /\ scrape.responses[2].results = <<>>
    /\ scrape.response.results # <<>>
    /\ scrape.response.effective_query = <<scrape.candidates[2]>>

\* a call that found nothing for the query and for three candidates
AllCandidatesEmpty ==
    ~(/\ scrape.pc = "returned"
      /\ Len(scrape.candidates) = 3
      /\ scrape.response.results = <<>>)


(* ---------------------- series with its episodes ---------------------- *)

\* most seasons of a series
MaxSeasons == 3

\* the season numbers of a series: 0 for the specials
SeasonNumbers == 0..2

\* a season of series.seasons as _parse_series_json leaves it: no episodes
SeasonStub(season_number) == [season_number |-> season_number, episodes |-> <<>>]

\* series.seasons of get_series_by_api: up to n stubs
RECURSIVE SeasonLists(_)
SeasonLists(n) ==
    IF n = 0 THEN {<<>>}
    ELSE SeasonLists(n - 1)
         \cup {Append(seasons, SeasonStub(number)) :
                  seasons \in {s \in SeasonLists(n - 1) : Len(s) = n - 1},
                  number \in SeasonNumbers}

\* the body of the answer to /tv/{id}/season/{n}: its season_number, None
\* when the body has none, and its episodes
SeasonBodies(season_number) ==
    [season_number : {season_number, None}, episodes : {<<>>, <<"episode">>}]

\* what a season fetch comes to: a body with status 200, another status,
\* or an exception of the request
SeasonAnswers(season_number) ==
    [kind : {"body"}, body : SeasonBodies(season_number)]
    \cup [kind : {"not_found", "raised"},
          body : {[season_number |-> None, episodes |-> <<>>]}]

\* _parse_season_json: data.get("season_number", 0) and the episodes
_parse_season_json(data) ==
    [season_number |-> IF data.season_number = None THEN 0 ELSE data.season_number,
     episodes |-> data.episodes]

\* get_season_by_api: the season of a body with status 200, no season
\* (the empty sequence) for another status
get_season_by_api(answer) ==
    IF answer.kind = "body" THEN <<_parse_season_json(answer.body)>> ELSE <<>>

\* a loop that takes every detail that came back
DetailAlways(season, answer) ==
    IF answer.kind = "body" THEN _parse_season_json(answer.body) ELSE season

\* lines 605-615: what the loop appends for a season that was fetched
UpdatedSeason(season, answer) ==
    IF answer.kind = "raised" THEN season
    ELSE LET season_detail == get_season_by_api(answer)
         IN  IF season_detail # <<>> /\ season_detail[1].episodes # <<>>
             THEN season_detail[1]
             ELSE season

\* a call of get_series_with_episodes after get_series_by_api returned a
\* series with these seasons
NewSeries(seasons, include_episodes) ==
    [pc |-> "series", seasons |-> seasons, include_episodes |-> include_episodes,
     updated_seasons |-> <<>>, fetched |-> <<>>, answers |-> <<>>,
     result |-> <<>>]

\* lines 596-597: nothing to fetch
ReturnSeries ==
    /\ scrape.pc = "series"
    /\ ~scrape.include_episodes \/ scrape.seasons = <<>>
    /\ scrape' = [scrape EXCEPT !.pc = "returned", !.result = scrape.seasons]
    /\ UNCHANGED jobVars

\* lines 600-603: the specials are kept as they are
KeepSpecials ==
    /\ scrape.pc = "series"
    /\ scrape.include_episodes
    /\ Len(scrape.updated_seasons) < Len(scrape.seasons)
    /\ LET season == scrape.seasons[Len(scrape.updated_seasons) + 1]
       IN  /\ season.season_number = 0
           /\ scrape' = [scrape EXCEPT !.updated_seasons = Append(@, season),
                                       !.answers = Append(@, <<>>)]
    /\ UNCHANGED jobVars

\* lines 605-615: one season fetched
FetchSeason ==
    /\ scrape.pc = "series"
    /\ scrape.include_episodes
    /\ Len(scrape.updated_seasons) < Len(scrape.seasons)
    /\ LET season == scrape.seasons[Len(scrape.updated_seasons) + 1]
       IN  /\ season.season_number # 0
           /\ \E answer \in SeasonAnswers(season.season_number) :
                scrape' = [scrape EXCEPT
                              !.updated_seasons = Append(@, UpdatedSeason(season, answer)),
                              !.fetched = Append(@, season.season_number),
                              !.answers = Append(@, <<answer>>)]
    /\ UNCHANGED jobVars

\* lines 617-618: the series with the updated seasons
ReturnUpdated ==
    /\ scrape.pc = "series"
    /\ scrape.include_episodes
    /\ scrape.seasons # <<>>
    /\ Len(scrape.updated_seasons) = Len(scrape.seasons)
    /\ scrape' = [scrape EXCEPT !.pc = "returned", !.result = scrape.updated_seasons]
    /\ UNCHANGED jobVars

InitSeries ==
    /\ JobsInit
    /\ fs = <<>>
    /\ events = 0
    /\ \E seasons \in SeasonLists(MaxSeasons), include_episodes \in BOOLEAN :
         scrape = NewSeries(seasons, include_episodes)

NextSeries ==
    \/ ReturnSeries
    \/ KeepSpecials
    \/ FetchSeason
    \/ ReturnUpdated

SpecSeries == InitSeries /\ [][NextSeries]_vars

\* the season numbers other than 0, in the order of the list
RECURSIVE NumberedSeasons(_)
NumberedSeasons(seasons) ==
    IF seasons = <<>> THEN <<>>
    ELSE (IF Head(seasons).season_number = 0 THEN <<>>
          ELSE <<Head(seasons).season_number>>)
         \o NumberedSeasons(Tail(seasons))

\* the fetches of a call that went through its seasons: none for season
\* 0, one for every other season in the order of the list, and at every
\* place the detail if the fetch came back with episodes, else the stub
FetchedInTurn ==
    /\ Len(scrape.result) = Len(scrape.seasons)
    /\ \A i \in 1..Len(scrape.fetched) : scrape.fetched[i] # 0
    /\ scrape.fetched = NumberedSeasons(scrape.seasons)
    /\ \A i \in 1..Len(scrape.seasons) :
          LET stub == scrape.seasons[i]
              answer == scrape.answers[i]
              with_episodes == /\ answer # <<>>
                               /\ answer[1].kind = "body"
                               /\ answer[1].body.episodes # <<>>
          IN  IF with_episodes
              THEN scrape.result[i] = _parse_season_json(answer[1].body)
              ELSE scrape.result[i] = stub

\* C29 as stated: the seasons of the returned series have the length and
\* the season_number order of the seasons of get_series; season 0 is never
\* fetched; every other season is fetched in turn and replaced by its
\* detail only when the fetch came back with episodes, else the stub is
\* kept and the rest is still fetched.
C29_SeasonsKeptInOrder ==
    (scrape.pc = "returned" /\ scrape.include_episodes) =>
        /\ FetchedInTurn
        /\ \A i \in 1..Len(scrape.seasons) :
              scrape.result[i].season_number = scrape.seasons[i].season_number

\* C29: the seasons of the returned series have the length of the seasons
\* of get_series, each at its place; season 0 is never fetched; every
\* other season is fetched in turn and replaced by its detail only when
\* the fetch came back with episodes, else the stub is kept and the rest
\* is still fetched. The season_number at a place is that of the stub
\* unless the detail that replaced it carries another.
C29_SeasonsKeptInPlace ==
    (scrape.pc = "returned" /\ scrape.include_episodes) =>
        /\ FetchedInTurn
        /\ \A i \in 1..Len(scrape.seasons) :
              \/ scrape.result[i].season_number = scrape.seasons[i].season_number
              \/ /\ scrape.result[i] # scrape.seasons[i]
                 /\ scrape.answers[i][1].body.season_number
                       # scrape.seasons[i].season_number

\* a series with specials, a season whose fetch failed and a season that
\* was replaced by its detail after it
C29_Witness ==
    /\ scrape.pc = "returned"
    /\ scrape.include_episodes
    /\ Len(scrape.seasons) = 3
    /\ scrape.seasons[1].season_number = 0
    /\ scrape.answers[2] # <<>> /\ scrape.answers[2][1].kind = "raised"
    /\ scrape.result[2] = scrape.seasons[2]
    /\ scrape.result[3].episodes # <<>>
    /\ scrape.result[3].season_number = scrape.seasons[3].season_number

\* The order of the season numbers is kept when every detail carries the
\* number of the season that was asked for.
SeasonOrderKeptForMatchingDetails ==
    (/\ scrape.pc = "returned"
     /\ scrape.include_episodes
     /\ \A i \in 1..Len(scrape.answers) :
           (scrape.answers[i] # <<>> /\ scrape.answers[i][1].kind = "body") =>
               scrape.answers[i][1].body.season_number = scrape.seasons[i].season_number) =>
        \A i \in 1..Len(scrape.seasons) :
            scrape.result[i].season_number = scrape.seasons[i].season_number


(* ----------------------------- API token ------------------------------ *)

\* longest token given, in pieces
MaxTokenLen == 3

\* the pieces of a token: a space, key characters, the start of a JWT
TokenPieces == {SPACE, "key", "eyJ"}

\* the tokens of at most n pieces
RECURSIVE Tokens(_)
Tokens(n) ==
    IF n = 0 THEN {<<>>}
    ELSE Tokens(n - 1)
         \cup {Append(token, piece) : token \in {t \in Tokens(n - 1) : Len(t) = n - 1},
                                      piece \in TokenPieces}

\* token.startswith("eyJ")
_is_bearer_token(token) == token # <<>> /\ Head(token) = "eyJ"

\* what comes of GET /configuration: a status, with or without a
\* status_message in the body, or an exception of the request
VerifyAnswers ==
    [kind : {"response"}, status_code : {200, 401, 500}, status_message : BOOLEAN]
    \cup [kind : {"TimeoutException", "RequestError", "Exception"},
          status_code : {0}, status_message : {FALSE}]

\* a verification that only a 401 fails
VerifyUnless401(token, answer) ==
    IF answer.kind = "response" /\ answer.status_code # 401
    THEN [is_valid |-> TRUE, error |-> NoText, bearer |-> _is_bearer_token(token)]
    ELSE [is_valid |-> FALSE, error |-> "invalid", bearer |-> _is_bearer_token(token)]

\* TMDBService.verify_api_token: valid for status 200 only; every other
\* status and every exception is an error message
verify_api_token(token, answer) ==
    LET bearer == _is_bearer_token(token)
        error == CASE answer.kind = "TimeoutException" -> "timeout"
                   [] answer.kind = "RequestError" -> "connection error"
                   [] answer.kind = "Exception" -> "verification failed"
                   [] answer.status_code = 401 ->
                        IF answer.status_message THEN "status_message" ELSE "invalid or expired"
                   [] OTHER ->
                        IF answer.status_message THEN "status_message" ELSE "HTTP status"
    IN  IF answer.kind = "response" /\ answer.status_code = 200
        THEN [is_valid |-> TRUE, error |-> NoText, bearer |-> bearer]
        ELSE [is_valid |-> FALSE, error |-> error, bearer |-> bearer]

\* what the configuration holds: the API token (the empty token for none)
\* and whether it was verified
TokenStores == [token : {<<>>, <<"key", "key">>}, verified : BOOLEAN]

\* ConfigService.save_api_token
save_api_token(store, token) == [store EXCEPT !.token = token]

\* ConfigService.set_api_token_verified
set_api_token_verified(store, verified) == [store EXCEPT !.verified = verified]

\* ApiTokenStatus
ApiTokenStatus(is_configured, is_valid, error_message) ==
    [is_configured |-> is_configured, is_valid |-> is_valid,
     error_message |-> error_message]

\* a call of save_and_verify_api_token(token) on a configuration
NewTokenCall(token, store) ==
    [pc |-> "token", token |-> token, before |-> store, store |-> store,
     answered |-> <<>>, saves |-> <<>>,
     status |-> ApiTokenStatus(FALSE, FALSE, NoText)]

\* lines 242-247: 'not token or not token.strip()'
RejectEmptyToken ==
    /\ scrape.pc = "token"
    /\ Strip(scrape.token, Whitespace) = <<>>
    /\ scrape' = [scrape EXCEPT !.pc = "returned",
                     !.status = ApiTokenStatus(FALSE, FALSE, "empty token")]
    /\ UNCHANGED jobVars

\* lines 250-258: the token verified; a failure is returned
VerifyToken ==
    /\ scrape.pc = "token"
    /\ Strip(scrape.token, Whitespace) # <<>>
    /\ \E answer \in VerifyAnswers :
         LET token == Strip(scrape.token, Whitespace)
             checked == verify_api_token(token, answer)
             asked == [scrape EXCEPT
                          !.answered = Append(@, [token |-> token, answer |-> answer])]
         IN  scrape' = IF checked.is_valid
                       THEN [asked EXCEPT !.pc = "save"]
                       ELSE [asked EXCEPT !.pc = "returned",
                                !.status = ApiTokenStatus(FALSE, FALSE, checked.error)]
    /\ UNCHANGED jobVars

\* lines 260-270: the verified token saved and marked
SaveToken ==
    /\ scrape.pc = "save"
    /\ LET token == Strip(scrape.token, Whitespace)
       IN  scrape' = [scrape EXCEPT
                         !.pc = "returned",
                         !.store = set_api_token_verified(save_api_token(@, token), TRUE),
                         !.saves = Append(@, token),
                         !.status = ApiTokenStatus(TRUE, TRUE, NoText)]
    /\ UNCHANGED jobVars

InitToken ==
    /\ JobsInit
    /\ fs = <<>>
    /\ events = 0
    /\ \E token \in Tokens(MaxTokenLen), store \in TokenStores :
         scrape = NewTokenCall(token, store)

NextToken ==
    \/ RejectEmptyToken
    \/ VerifyToken
    \/ SaveToken

SpecToken == InitToken /\ [][NextToken]_vars

\* the MDB took the token: status 200
Accepted(answer) == answer.kind = "response" /\ answer.status_code = 200

\* C30: save_and_verify_api_token saves a token only after
\* verify_api_token succeeded for it; for an empty token and for a failed
\* verification (401, another status that is not 200, a timeout, a
\* connection error) nothing is saved, and the stored token and its
\* verified flag are as before.
C30_SavedOnlyWhenVerified ==
    /\ \A i \in 1..Len(scrape.saves) :
          \E j \in 1..Len(scrape.answered) :
             /\ scrape.answered[j].token = scrape.saves[i]
             /\ Accepted(scrape.answered[j].answer)
    /\ scrape.saves = <<>> => scrape.store = scrape.before
    /\ (scrape.pc = "returned"
        /\ (\/ Strip(scrape.token, Whitespace) = <<>>
            \/ \E j \in 1..Len(scrape.answered) :
                  ~Accepted(scrape.answered[j].answer))) =>
          /\ scrape.saves = <<>>
          /\ scrape.store = scrape.before
          /\ ~scrape.status.is_valid

\* a token that the MDB refused with another status than 401, given to a
\* configuration that holds a verified token
C30_Witness ==
    /\ scrape.pc = "returned"
    /\ scrape.answered # <<>>
    /\ scrape.answered[1].answer.kind = "response"
    /\ scrape.answered[1].answer.status_code = 500
    /\ scrape.before.token # <<>>
    /\ scrape.before.verified
    /\ scrape.store = scrape.before

\* a verified token is saved without the spaces around it
TokenSavedStripped ==
    (scrape.pc = "returned" /\ scrape.saves # <<>>) =>
        /\ scrape.store.token = Strip(scrape.token, Whitespace)
        /\ scrape.store.verified


(* --------------------------- filename parser -------------------------- *)

\* most folders above a file
MaxDepth == 3

\* the years that FolderContext and SeriesName accept (folder_context.py
\* line 152, series_name.py line 168)
YearMin == 1950
YearMax == 2030

\* a piece of a file or folder name: a piece of text that the patterns
\* of the plugins take or leave as a whole
Piece(kind, a, b) == [kind |-> kind, a |-> a, b |-> b]

\* a word such as "Show", and the word "Season"
Word == Piece("word", None, None)
SeasonWord == Piece("season", None, None)
\* " N": whitespace and a number of one to three digits
Number(n) == Piece("number", n, None)
\* "[tmdbid-N]"
TmdbTag(n) == Piece("tmdb", n, None)
\* "(YYYY)"
YearTag(year) == Piece("year", year, None)
\* "SxxEyy"
Marker(season, episode) == Piece("marker", season, episode)
\* "[NN]"
Bracket(n) == Piece("bracket", n, None)

\* the folder names of the paths: a plain name, names with a tmdbid tag,
\* with a year inside and outside the accepted range, with a number at
\* the end, and a Season folder
FolderNames ==
    {<<Word>>,
     <<Word, TmdbTag(PathTmdbId)>>,
     <<Word, YearTag(2020)>>,
     <<Word, YearTag(2040)>>,
     <<Word, YearTag(1940), TmdbTag(0)>>,
     <<Word, Number(2)>>,
     <<SeasonWord, Number(2)>>}

\* the file names, without their extension
FileNames ==
    {<<Word>>,
     <<Word, Marker(1, 5)>>,
     <<Word, Marker(0, 0)>>,
     <<Word, Marker(0, 0), Bracket(12)>>,
     <<Word, Marker(1, 0), Number(3)>>,
     <<Word, YearTag(1999), Marker(1, 5)>>,
     <<Word, YearTag(2040), Marker(1, 5)>>,
     <<Word, Bracket(12)>>,
     <<Word, Number(3)>>}

\* the absolute paths of at most n folders: the folders from the root down
\* to the parent of the file
RECURSIVE FolderPaths(_)
FolderPaths(n) ==
    IF n = 0 THEN {<<>>}
    ELSE FolderPaths(n - 1)
         \cup {Append(path, name) : path \in {p \in FolderPaths(n - 1) : Len(p) = n - 1},
                                    name \in FolderNames}

\* ParseContext(original_filename, filepath): filepath is the sequence
\* of one path, or empty for None; series_name is empty for None
ParseContext(filename, filepath) ==
    [original_filename |-> filename, filepath |-> filepath,
     series_name |-> <<>>, season |-> None, episode |-> None, year |-> None,
     tmdb_id |-> None, matched_patterns |-> <<>>]

\* the first position of a piece of the kind in the name, 0 for none
FirstOf(name, kind) ==
    IF \E i \in 1..Len(name) : name[i].kind = kind
    THEN CHOOSE i \in 1..Len(name) :
            /\ name[i].kind = kind
            /\ \A j \in 1..(i - 1) : name[j].kind # kind
    ELSE 0

\* SEASON_FOLDER_PATTERN.match(name): "Season N" and nothing else
IsSeasonFolder(name) ==
    Len(name) = 2 /\ name[1].kind = "season" /\ name[2].kind = "number"

\* no series folder
NoFolder == [found |-> FALSE, name |-> <<>>, season |-> None]

\* a detection that takes a folder directly under the root as well
DetectUnderRoot(path) ==
    LET depth == Len(path)
    IN  IF depth = 0 THEN NoFolder
        ELSE IF IsSeasonFolder(path[depth])
        THEN IF depth >= 2
             THEN [found |-> TRUE, name |-> path[depth - 1],
                   season |-> path[depth][2].a]
             ELSE NoFolder
        ELSE [found |-> TRUE, name |-> path[depth], season |-> None]

\* _detect_series_folder: the series folder and the season of a Season
\* folder; no folder when the series folder would be the root or a folder
\* directly under the root
_detect_series_folder(path) ==
    LET depth == Len(path)
    IN  IF depth = 0 THEN NoFolder
        ELSE IF IsSeasonFolder(path[depth])
        THEN IF depth >= 3
             THEN [found |-> TRUE, name |-> path[depth - 1],
                   season |-> path[depth][2].a]
             ELSE NoFolder
        ELSE IF depth = 1 THEN NoFolder
        ELSE [found |-> TRUE, name |-> path[depth], season |-> None]

\* the name without its bracket groups (_BRACKET_CLEAN_PATTERNS)
RECURSIVE WithoutBrackets(_)
WithoutBrackets(name) ==
    IF name = <<>> THEN <<>>
    ELSE IF Head(name).kind \in {"tmdb", "year", "bracket"}
    THEN WithoutBrackets(Tail(name))
    ELSE <<Head(name)>> \o WithoutBrackets(Tail(name))

\* matched_patterns.append(tag) when the condition holds
Tagged(matched, condition, tag) == IF condition THEN Append(matched, tag) ELSE matched

\* a year within the accepted range
YearAccepted(year) == YearMin <= year /\ year <= YearMax

\* FolderContextPlugin.parse (lines 126-190)
FolderContextParse(ctx) ==
    IF ctx.filepath = <<>> THEN ctx
    ELSE
    LET folder == _detect_series_folder(ctx.filepath[1])
        folder_name == folder.name
        \* lines 137-139
        takes_season == folder.season # None /\ ctx.season = None
        \* lines 142-145
        tmdb_at == FirstOf(folder_name, "tmdb")
        takes_id == tmdb_at # 0 /\ ctx.tmdb_id = None
        \* lines 148-154
        year_at == FirstOf(folder_name, "year")
        takes_year == /\ ctx.year = None
                      /\ year_at # 0
                      /\ YearAccepted(folder_name[year_at].a)
        \* lines 158-188: the name without brackets; a number at its end
        \* after other text is the episode
        cleaned == WithoutBrackets(folder_name)
        names == ctx.series_name = <<>>
        trailing == /\ names
                    /\ Len(cleaned) >= 2
                    /\ cleaned[Len(cleaned)].kind = "number"
        takes_episode == trailing /\ ctx.episode = None
        name == IF trailing THEN SubSeq(cleaned, 1, Len(cleaned) - 1) ELSE cleaned
        takes_name == names /\ name # <<>>
        m1 == Tagged(ctx.matched_patterns, takes_season, "folder_context:season")
        m2 == Tagged(m1, takes_id, "folder_context:tmdb_id")
        m3 == Tagged(m2, takes_year, "folder_context:year")
        m4 == Tagged(m3, takes_episode, "folder_context:episode")
        m5 == Tagged(m4, takes_name, "folder_context:series_name")
    IN  IF ~folder.found THEN ctx
        ELSE [ctx EXCEPT
                 !.season = IF takes_season THEN folder.season ELSE @,
                 !.tmdb_id = IF takes_id THEN folder_name[tmdb_at].a ELSE @,
                 !.year = IF takes_year THEN folder_name[year_at].a ELSE @,
                 !.episode = IF takes_episode THEN cleaned[Len(cleaned)].a ELSE @,
                 !.series_name = IF takes_name THEN name ELSE @,
                 !.matched_patterns = m5]

\* STANDARD_PATTERNS in their order; the file names hold no "EP01" piece
\* for the second pattern
StandardPatterns == <<"season_episode", "episode_only", "trailing_number">>

\* re.search(pattern, original_filename): the position of the first
\* match, 0 for none. A trailing number stands before the extension or
\* before an opening bracket.
PatternMatch(filename, pattern_type) ==
    CASE pattern_type = "season_episode" -> FirstOf(filename, "marker")
      [] pattern_type = "episode_only" -> FirstOf(filename, "bracket")
      [] OTHER ->
           LET at == {i \in 1..Len(filename) :
                        /\ filename[i].kind = "number"
                        /\ \/ i = Len(filename)
                           \/ filename[i + 1].kind \in {"bracket", "tmdb"}}
           IN  IF at = {} THEN 0 ELSE CHOOSE i \in at : \A j \in at : i <= j

\* line 50: 'if ctx.episode:', the test that ends the loop over the
\* patterns
EndsLoop(episode) == episode # None /\ episode # 0

\* lines 41-52: the patterns from the n-th on
RECURSIVE StandardLoop(_, _)
StandardLoop(ctx, n) ==
    IF n > Len(StandardPatterns) THEN ctx
    ELSE LET pattern_type == StandardPatterns[n]
             at == PatternMatch(ctx.original_filename, pattern_type)
             piece == ctx.original_filename[at]
             set == IF pattern_type = "season_episode"
                    THEN [ctx EXCEPT !.season = piece.a, !.episode = piece.b]
                    ELSE [ctx EXCEPT !.episode = piece.a]
         IN  IF at = 0 THEN StandardLoop(ctx, n + 1)
             ELSE IF EndsLoop(set.episode)
             THEN [set EXCEPT !.matched_patterns =
                       Append(@, "episode_standard:" \o pattern_type)]
             ELSE StandardLoop(set, n + 1)

\* EpisodeStandardPlugin: skipped when the episode is set (line 34)
EpisodeStandardParse(ctx) ==
    IF ctx.episode # None THEN ctx ELSE StandardLoop(ctx, 1)

\* CleanerPlugin, EpisodeJapanesePlugin and EpisodeChinesePlugin: the
\* file names hold no release group and none of their episode marks
OtherPlugins(ctx) == ctx

\* _extract_year (lines 163-170): the first year of the file name, if it
\* is within the range
_extract_year(filename) ==
    LET at == FirstOf(filename, "year")
    IN  IF at # 0 /\ YearAccepted(filename[at].a) THEN filename[at].a ELSE None

\* lines 100-102: 'if year: ctx.year = year'
YearFromFilename(ctx, year) == IF year # None /\ year # 0 THEN year ELSE ctx.year

\* SeriesNamePlugin.parse (lines 91-107): the name is the words before
\* the first marker, bracket or year of the file name
SeriesNameParse(ctx) ==
    LET filename == ctx.original_filename
        marks == {i \in 1..Len(filename) : filename[i].kind # "word"}
        first == IF marks = {} THEN Len(filename) + 1
                 ELSE CHOOSE i \in marks : \A j \in marks : i <= j
        name == IF first > 1 THEN SubSeq(filename, 1, first - 1) ELSE <<>>
        from_folder == \E i \in 1..Len(ctx.matched_patterns) :
                          ctx.matched_patterns[i] = "folder_context:series_name"
        takes_name == ~from_folder /\ name # <<>>
    IN  [ctx EXCEPT
            !.series_name = IF takes_name THEN name ELSE @,
            !.matched_patterns = Tagged(@, takes_name, "series_name:extracted"),
            !.year = YearFromFilename(ctx, _extract_year(filename))]

\* ParserService.parse: the plugins in the order of their priority, and
\* the ParsedInfo of the context they leave
ParserParse(filename, filepath) ==
    LET ctx == SeriesNameParse(OtherPlugins(EpisodeStandardParse(
                   OtherPlugins(FolderContextParse(ParseContext(filename, filepath))))))
    IN  [series_name |-> ctx.series_name, season |-> ctx.season,
         episode |-> ctx.episode, year |-> ctx.year, tmdb_id |-> ctx.tmdb_id,
         is_parsed |-> ctx.episode # None \/ ctx.series_name # <<>>,
         matched_patterns |-> ctx.matched_patterns]

\* a call of parse(filename, filepath)
NewParse(filename, filepath) ==
    [pc |-> "parse_call", filename |-> filename, filepath |-> filepath,
     folder_ctx |-> ParseContext(filename, filepath),
     parsed |-> ParserParse(<<>>, <<>>)]

\* parse(filename, filepath) returns
ParseReturns ==
    /\ scrape.pc = "parse_call"
    /\ scrape' = [scrape EXCEPT
                     !.pc = "parsed",
                     !.folder_ctx = FolderContextParse(
                                        ParseContext(scrape.filename, scrape.filepath)),
                     !.parsed = ParserParse(scrape.filename, scrape.filepath)]
    /\ UNCHANGED jobVars

InitParse ==
    /\ JobsInit
    /\ fs = <<>>
    /\ events = 0
    /\ \E filename \in FileNames,
          filepath \in {<<>>} \cup {<<path>> : path \in FolderPaths(MaxDepth)} :
         scrape = NewParse(filename, filepath)

NextParse == ParseReturns

SpecParse == InitParse /\ [][NextParse]_vars


\* the first SxxEyy marker of the file name of the call
FileMarker == scrape.filename[FirstOf(scrape.filename, "marker")]
HasMarker == FirstOf(scrape.filename, "marker") # 0

\* C31: for every file name with an SxxEyy marker and every file path,
\* parse returns the season xx and the episode yy of the marker, whatever
\* the folders above the file are named, markers with the number 0
\* included.
C31_MarkerParsed ==
    (scrape.pc = "parsed" /\ HasMarker) =>
        /\ scrape.parsed.season = FileMarker.a
        /\ scrape.parsed.episode = FileMarker.b

\* The marker is returned when the folder gave no episode and the episode
\* of the marker is not 0.
MarkerParsedUnlessFolderEpisode ==
    (/\ scrape.pc = "parsed"
     /\ HasMarker
     /\ scrape.folder_ctx.episode = None
     /\ FileMarker.b # 0) =>
        /\ scrape.parsed.season = FileMarker.a
        /\ scrape.parsed.episode = FileMarker.b

\* A marker with episode 0 is returned when no later pattern matches.
ZeroMarkerParsedAlone ==
    (/\ scrape.pc = "parsed"
     /\ scrape.filename = <<Word, Marker(0, 0)>>
     /\ scrape.folder_ctx.episode = None) =>
        scrape.parsed.season = 0 /\ scrape.parsed.episode = 0


\* the folder that holds the file, and the tmdbid tag of its name
ParentFolder == scrape.filepath[1][Len(scrape.filepath[1])]
ParentHasTag ==
    /\ scrape.filepath # <<>>
    /\ scrape.filepath[1] # <<>>
    /\ FirstOf(ParentFolder, "tmdb") # 0
ParentTag == ParentFolder[FirstOf(ParentFolder, "tmdb")]

\* C32 as stated: for every path whose parent folder name holds
\* [tmdbid-NNN], parse returns the id NNN, wherever the folder lies, directly
\* under the root included.
C32_ParentTagParsed ==
    (scrape.pc = "parsed" /\ ParentHasTag) => scrape.parsed.tmdb_id = ParentTag.a

\* C32: for every path whose parent folder name holds [tmdbid-NNN], parse
\* returns the id NNN wherever the folder lies below a folder of the root;
\* for a parent folder directly under the root parse returns no id.
C32_ParentTagParsedBelowMount ==
    (scrape.pc = "parsed" /\ ParentHasTag) =>
        IF Len(scrape.filepath[1]) >= 2
        THEN scrape.parsed.tmdb_id = ParentTag.a
        ELSE scrape.parsed.tmdb_id = None

\* a file in a tagged folder three folders deep, parsed with the id 0 of
\* the tag
C32_Witness ==
    /\ scrape.pc = "parsed"
    /\ ParentHasTag
    /\ Len(scrape.filepath[1]) = 3
    /\ ParentTag.a = 0
    /\ scrape.parsed.tmdb_id = 0


\* the series folder of the path of the call, and the year of its name
SeriesFolderOfCall ==
    IF scrape.filepath = <<>> THEN NoFolder
    ELSE _detect_series_folder(scrape.filepath[1])
FolderHasYear ==
    /\ SeriesFolderOfCall.found
    /\ FirstOf(SeriesFolderOfCall.name, "year") # 0
FolderYear == SeriesFolderOfCall.name[FirstOf(SeriesFolderOfCall.name, "year")].a

\* C33: when the year written in the name of the series folder is outside
\* [1950, 2030], parse returns no year, whatever the file name holds.
C33_FolderYearOutsideRange ==
    (scrape.pc = "parsed" /\ FolderHasYear /\ ~YearAccepted(FolderYear)) =>
        scrape.parsed.year = None

\* A folder year outside the range is never the year returned, and no year
\* is returned when the file name holds none within the range.
FolderYearOutsideRangeNotTaken ==
    (scrape.pc = "parsed" /\ FolderHasYear /\ ~YearAccepted(FolderYear)) =>
        /\ scrape.folder_ctx.year = None
        /\ scrape.parsed.year = _extract_year(scrape.filename)

\* C34: the season of a Season folder and the year of the series folder
\* are the season and the year parse returns, also when the file name holds
\* a marker with another season or another year.
C34_FolderValuesKept ==
    scrape.pc = "parsed" =>
        /\ scrape.folder_ctx.season # None =>
               scrape.parsed.season = scrape.folder_ctx.season
        /\ scrape.folder_ctx.year # None =>
               scrape.parsed.year = scrape.folder_ctx.year

\* The folder values are returned when the file name holds no marker and
\* no year within the range.
FolderValuesKeptWithoutFileValues ==
    (scrape.pc = "parsed" /\ ~HasMarker /\ _extract_year(scrape.filename) = None) =>
        /\ scrape.folder_ctx.season # None =>
               scrape.parsed.season = scrape.folder_ctx.season
        /\ scrape.folder_ctx.year # None =>
               scrape.parsed.year = scrape.folder_ctx.year


\* ScrapeStatus: the ten values
ScrapeStatuses ==
    {ST_SUCCESS, ST_NO_MATCH, ST_SEARCH_FAILED, ST_API_FAILED, ST_NEED_SELECTION,
     ST_NEED_SEASON_EPISODE, ST_EMBY_CONFLICT, ST_NFO_FAILED, ST_FILE_CONFLICT,
     ST_MOVE_FAILED}

\* the MDB client answered with a body that is not JSON
BadJsonAnswer == scrape.search_failure = "BadJson" \/ scrape.detail_failure = "BadJson"

\* C35: whatever the collaborators do (no token set, a timeout, a
\* connection failure, a null result, an oracle error, a placement failure,
\* a file-system error while the NFO files are written), scrape_file ends by
\* returning a ScrapeResult with one of the ten statuses; no exception
\* leaves it.
C35_NoExceptionEscapes ==
    (ScrapeFileRun /\ ~BadJsonAnswer) =>
        /\ scrape.pc # "raised"
        /\ scrape.pc = "returned" => scrape.status \in ScrapeStatuses

\* An exception leaves scrape_file only from the two MDB calls, and only
\* when the client raised an error other than a timeout or a connection
\* failure; every result returned has one of the ten statuses.
ExceptionEscapesOnlyFromClient ==
    ScrapeFileRun =>
        /\ scrape.pc = "raised" =>
               \/ scrape.search_failure \in {"NotConfigured", "BadJson"}
               \/ scrape.detail_failure = "NotConfigured"
        /\ scrape.pc = "returned" => scrape.status \in ScrapeStatuses

\* C36: when scrape_file ends with a status other than success, the source
\* file that was there at the start is still at its path with its content;
\* only runs that end with success have placed the file.
C36_SourceKeptUnlessSuccess ==
    (scrape.pc = "returned" /\ ScrapeFileRun /\ scrape.exists
        /\ scrape.status # ST_SUCCESS) =>
        /\ scrape.source_file = "video"
        /\ scrape.dest_file \notin {"video", "hardlink", "symlink"}

\* The source file is kept in every run that ends before the placement or
\* with the placement's own failure.
SourceKeptWhenNotPlaced ==
    (scrape.pc = "returned" /\ ScrapeFileRun /\ scrape.exists
        /\ scrape.status # ST_SUCCESS
        /\ "nfo_write" \notin Range(scrape.calls)) =>
        /\ scrape.source_file = "video"
        /\ scrape.dest_file \notin {"video", "hardlink", "symlink"}


\* ------------------------------------------------------------------
\* scrape_by_id (scraper_service.py 637-890): the scrape of a file with
\* the series id, the season and the episode given by the request

\* the state of a run when scrape_by_id is entered; oracle is what the
\* media server reports for the episode when it is asked
NewByIdRun(exists, season, episode, oracle) ==
    [NewRun(exists, FALSE) EXCEPT
        !.pc = "byid_exists", !.selected_id = PathTmdbId,
        !.season = season, !.episode = episode,
        !.season_num = season, !.episode_num = episode,
        !.oracle = oracle]

\* lines 662-667: the existence check
ByIdCheckExists ==
    /\ scrape.pc = "byid_exists"
    /\ scrape' = IF scrape.exists
                 THEN Goto(scrape, "byid_detail", scrape.scrape_logs)
                 ELSE Return(scrape, ST_MOVE_FAILED, "file not found", <<>>)
    /\ UNCHANGED jobVars

\* the except clauses around the detail call of scrape_by_id (696, 704)
ByIdDetailHandlers == {"ValueError", "httpx.TimeoutException", "httpx.RequestError"}

\* lines 677-722: the series detail and the season detail, whose failure
\* is only logged
ByIdGetDetails ==
    /\ scrape.pc = "byid_detail"
    /\ LET run == Called(scrape, "detail")
           steps == <<ScrapeLogStep("detail", <<INFO>>)>>
       IN  \/ \E failure \in MdbFailures :
                LET failed == [run EXCEPT !.detail_failure = failure]
                IN  scrape' = IF Caught(ClientError(failure), ByIdDetailHandlers)
                              THEN Return(failed, ST_API_FAILED, "detail request failed",
                                          FailStep(steps, 1, ERROR))
                              ELSE Raised([failed EXCEPT !.scrape_logs = steps])
           \/ \E status_code \in {200, 404}, season_fetch \in FetchOutcomes :
                LET series == get_series_by_api(status_code, 1)
                    got == [run EXCEPT !.series = series, !.detail_failure =
                                          IF series.found THEN NoText ELSE "null"]
                    named == AppendLog(steps, 1, INFO)
                IN  scrape' =
                      IF SeriesMissing(series)
                      THEN Return(got, ST_API_FAILED, "no series detail",
                                  FailStep(steps, 1, ERROR))
                      ELSE Goto([Called(got, "season") EXCEPT
                                    !.season_fetch = season_fetch],
                                "byid_nfo",
                                IF season_fetch = "done"
                                THEN AppendLog(named, 1, INFO) ELSE named)
    /\ UNCHANGED jobVars

\* lines 724-741: the NFO content; no conflict check stands before it
ByIdGenerateNfo ==
    /\ scrape.pc = "byid_nfo"
    /\ \E ok \in BOOLEAN :
         LET run == Called(scrape, "nfo")
             steps == Append(scrape.scrape_logs, ScrapeLogStep("nfo", <<>>))
             k == Len(steps)
         IN  scrape' = IF ok
                       THEN Goto(run, "byid_rename", AppendLog(steps, k, INFO))
                       ELSE Return(run, ST_NFO_FAILED, "nfo generation failed",
                                   FailStep(steps, k, ERROR))
    /\ UNCHANGED jobVars

\* lines 743-790: the placement; every failure that execute_rename
\* reports ends the run with move_failed (778-785)
ByIdPlaceFile ==
    /\ scrape.pc = "byid_rename"
    /\ LET steps == Append(scrape.scrape_logs, ScrapeLogStep("move", <<INFO>>))
           k == Len(steps)
           opened == [scrape EXCEPT !.scrape_logs = steps]
       IN  \/ scrape' = PlacementFailed(opened)
           \/ \E link_mode \in OrganizeMode, dest_found \in DestStates,
                 fault \in RenameFaults :
                LET rename_result ==
                        execute_rename(dest_found, EffectiveLinkMode(link_mode), fault)
                    run == [Called(opened, "rename") EXCEPT
                               !.dest_found = dest_found,
                               !.source_file = rename_result.source_file,
                               !.dest_file = rename_result.dest_file]
                IN  scrape' =
                      IF ~rename_result.success
                      THEN Return(run, ST_MOVE_FAILED, rename_result.error,
                                  FailStep(steps, k, ERROR))
                      ELSE Goto(run, "nfo_write", AppendLog(steps, k, INFO))
    /\ UNCHANGED jobVars

InitById ==
    /\ JobsInit
    /\ fs = <<>>
    /\ events = 0
    /\ \E exists \in BOOLEAN, season \in SeasonNums, episode \in EpisodeNums,
          oracle \in ConflictOutcomes :
         scrape = NewByIdRun(exists, season, episode, oracle)

\* the steps of one call of scrape_by_id; lines 798-865 write the NFO
\* files, the artwork and the subtitles as scrape_file does
NextById ==
    \/ ByIdCheckExists
    \/ ByIdGetDetails
    \/ ByIdGenerateNfo
    \/ ByIdPlaceFile
    \/ WriteNfo
    \/ DownloadImages
    \/ ProcessSubtitles

SpecById == InitById /\ [][NextById]_vars

\* C37: from the detail fetch on scrape_by_id ends as scrape_file does
\* for the same inputs: with the conflict status and without a placement
\* when the media server reports that the episode exists (as C12 has it for
\* scrape_file), and with file_conflict when another file stands at the
\* destination (as C13 has it for scrape_file).
C37_ByIdSameOutcomes ==
    (scrape.pc = "returned" /\ scrape.series.found) =>
        /\ scrape.oracle = "EPISODE_EXISTS" =>
               /\ scrape.status = ST_EMBY_CONFLICT
               /\ FileWriters \cap Range(scrape.calls) = {}
        /\ scrape.dest_found = "other" => scrape.status = ST_FILE_CONFLICT

\* scrape_by_id never asks the media server and never ends with one of
\* the two conflict statuses; a taken destination is left as it is and ends
\* the run with move_failed.
ByIdNoConflictStatus ==
    /\ "emby" \notin Range(scrape.calls)
    /\ scrape.pc = "returned" =>
           /\ scrape.status \notin {ST_EMBY_CONFLICT, ST_FILE_CONFLICT}
           /\ scrape.dest_found = "other" =>
                  /\ scrape.status = ST_MOVE_FAILED
                  /\ scrape.source_file = "video"
                  /\ "nfo_write" \notin Range(scrape.calls)


\* ------------------------------------------------------------------
\* the subtitles of a placed video (scraper_media.py 144-224,
\* subtitle_service.py 153-212)

\* the most subtitle files in the folder of the source video
MaxSubtitles == 2

\* a subtitle file name "<base>.<tag>.srt"; the tag is empty when the
\* name has none
SubtitleName(base, tag) == [base |-> base, tag |-> tag]

\* the bases of the names: the stem of the source video, another name with
\* the SxxEyy marker of the episode, a name that has neither, and the stem
\* of the destination video, which holds the marker of the episode
SourceStem == "src"
EpisodeBase == "ep"
OtherBase == "other"
DestVideoStem == "dst"

\* LANGUAGE_MAPPINGS: the tags "zh" and "chs" stand for the language CHS
\* (_extract_language, lines 259-289)
_extract_language(tag) == IF tag \in {"zh", "chs"} THEN "CHS" ELSE NoText

\* language.value, the tag a language is written with
LanguageValue(language) == IF language = "CHS" THEN "chs" ELSE ""

\* the subtitle names a source folder may hold
SubtitleNames ==
    {SubtitleName(SourceStem, tag) : tag \in {"", "zh", "chs"}}
    \cup {SubtitleName(EpisodeBase, tag) : tag \in {"", "chs"}}
    \cup {SubtitleName(OtherBase, "")}
    \cup {SubtitleName(DestVideoStem, tag) : tag \in {"", "chs"}}

\* a file of a folder: its name and its content, which is named after
\* the folder and the name the file had before the run
File(name, content) == [name |-> name, content |-> content]
Original(folder, name) == File(name, [folder |-> folder, name |-> name])

NamesOf(folder) == {f.name : f \in folder}
FileAt(folder, name) == CHOOSE f \in folder : f.name = name
Without(folder, name) == {f \in folder : f.name # name}

\* a match of every subtitle of the folder
MatchesAll(name) == TRUE

\* lines 192-197: _names_match(source_stem, sub_base) or
\* _episode_matches(sub_base)
SubtitleMatched(name) == name.base \in {SourceStem, EpisodeBase, DestVideoStem}

\* rename_subtitle lines 180-186: the new name, with the language kept
NewSubtitleName(name, new_video_name) ==
    SubtitleName(new_video_name, LanguageValue(_extract_language(name.tag)))

\* shutil.move(source, dest) within or between folders: os.rename puts the
\* file under the new name, in place of a file that is there
MoveFile(from, to, name, new_name) ==
    LET file == FileAt(from, name)
    IN  Without(to, new_name) \cup {File(new_name, file.content)}

\* rename_subtitle (lines 153-212) in the folder: the result and the
\* folder afterwards
rename_subtitle(folder, name, new_video_name, fault) ==
    LET dest == NewSubtitleName(name, new_video_name)
    IN  IF name \notin NamesOf(folder)
        THEN [success |-> FALSE, dest |-> dest, folder |-> folder]
        ELSE IF dest \in NamesOf(folder) /\ dest # name
        THEN [success |-> FALSE, dest |-> dest, folder |-> folder]
        ELSE IF fault
        THEN [success |-> FALSE, dest |-> dest, folder |-> folder]
        ELSE [success |-> TRUE, dest |-> dest,
              folder |-> MoveFile(folder, Without(folder, name), name, dest)]

\* the distinct sequences of at most n names: the order in which the scan
\* of the folder finds the subtitles
RECURSIVE ScanOrders(_)
ScanOrders(n) ==
    IF n = 0 THEN {<<>>}
    ELSE ScanOrders(n - 1)
         \cup {Append(q, name) : q \in {p \in ScanOrders(n - 1) : Len(p) = n - 1},
                                 name \in SubtitleNames}

Distinct(q) == \A i \in 1..Len(q), j \in 1..Len(q) : i # j => q[i] # q[j]

\* a scrape whose video is about to be placed: the subtitles of the source
\* folder in scan order, the subtitles of the destination folder, and
\* whether the two are one folder
NewSubtitleRun(link_mode, same_folder, subtitles, dest_names) ==
    LET source_folder == {Original("source", subtitles[i]) : i \in 1..Len(subtitles)}
        dest_folder == {Original("dest", name) : name \in dest_names}
    IN  [pc |-> "place", link_mode |-> link_mode, same_folder |-> same_folder,
         source_file |-> "video", subtitles |-> subtitles, i |-> 1,
         source_folder |-> source_folder, dest_folder |-> dest_folder,
         before_source |-> source_folder, before_dest |-> dest_folder,
         taken |-> {}, moved_subtitles |-> <<>>]

\* scraper_service.py 507-530: execute_rename places the video
PlaceVideo ==
    /\ scrape.pc = "place"
    /\ scrape' = [scrape EXCEPT
                     !.pc = "subtitles",
                     !.source_file =
                         FileOperation(EffectiveLinkMode(scrape.link_mode)).source_file]
    /\ UNCHANGED jobVars

\* lines 191-222: one turn of the loop over the scanned subtitles
ProcessSubtitle ==
    /\ scrape.pc = "subtitles"
    /\ scrape.i <= Len(scrape.subtitles)
    /\ \E rename_fault \in BOOLEAN, move_fault \in BOOLEAN :
         LET name == scrape.subtitles[scrape.i]
             next == [scrape EXCEPT !.i = @ + 1]
             result == rename_subtitle(scrape.source_folder, name, DestVideoStem,
                                       rename_fault)
             dest_taken == result.dest \in NamesOf(scrape.dest_folder)
             renamed == [next EXCEPT !.source_folder = result.folder]
         IN  scrape' =
               IF ~SubtitleMatched(name) THEN next
               ELSE IF ~result.success
               THEN [next EXCEPT !.taken =
                        IF result.dest \in NamesOf(scrape.source_folder)
                           /\ result.dest # name
                        THEN @ \cup {name} ELSE @]
               ELSE IF scrape.same_folder
               THEN [renamed EXCEPT !.moved_subtitles = Append(@, result.dest)]
               ELSE IF move_fault
               THEN [renamed EXCEPT !.taken =
                        IF dest_taken THEN @ \cup {name} ELSE @]
               ELSE [renamed EXCEPT
                        !.source_folder = Without(result.folder, result.dest),
                        !.dest_folder = MoveFile(result.folder, scrape.dest_folder,
                                                 result.dest, result.dest),
                        !.taken = IF dest_taken THEN @ \cup {name} ELSE @,
                        !.moved_subtitles = Append(@, result.dest)]
    /\ UNCHANGED jobVars

\* line 224: return moved_subtitles
SubtitlesReturn ==
    /\ scrape.pc = "subtitles"
    /\ scrape.i > Len(scrape.subtitles)
    /\ scrape' = [scrape EXCEPT !.pc = "done"]
    /\ UNCHANGED jobVars

InitSubtitles ==
    /\ JobsInit
    /\ fs = <<>>
    /\ events = 0
    /\ \E link_mode \in OrganizeMode, same_folder \in BOOLEAN,
          subtitles \in ScanOrders(MaxSubtitles),
          dest_names \in SUBSET {SubtitleName(DestVideoStem, tag) : tag \in {"", "chs"}} :
         /\ Distinct(subtitles)
         /\ same_folder => link_mode = INPLACE /\ dest_names = {}
         /\ scrape = NewSubtitleRun(link_mode, same_folder, subtitles, dest_names)

NextSubtitles ==
    \/ PlaceVideo
    \/ ProcessSubtitle
    \/ SubtitlesReturn

SpecSubtitles == InitSubtitles /\ [][NextSubtitles]_vars


\* the run has returned under a mode that leaves the source video in place
KeepingMode == scrape.link_mode \in {COPY, HARDLINK, SYMLINK}

\* C38 as stated: in copy, hardlink and symlink mode every file of the
\* source folder, the video and its subtitles, is still there after the
\* run under the same name with the same content.
C38_SourceFolderUnchanged ==
    (scrape.pc = "done" /\ KeepingMode) =>
        /\ scrape.source_file = "video"
        /\ scrape.source_folder = scrape.before_source

\* C38: in copy, hardlink and symlink mode the video and the subtitle
\* files that match neither the name nor the episode of the video are still
\* in the source folder after the run, under the same name with the same
\* content.
C38_VideoAndOtherSubtitlesKept ==
    (scrape.pc = "done" /\ KeepingMode) =>
        /\ scrape.source_file = "video"
        /\ \A f \in scrape.before_source :
               f.name.base = OtherBase => f \in scrape.source_folder

\* a copy run that moved a matched subtitle away and left the video and
\* the subtitle of another video in the source folder
C38_Witness ==
    /\ scrape.pc = "done"
    /\ scrape.link_mode = COPY
    /\ scrape.source_file = "video"
    /\ Original("source", SubtitleName(OtherBase, "")) \in scrape.source_folder
    /\ Original("source", SubtitleName(SourceStem, "zh")) \in scrape.before_source
    /\ SubtitleName(SourceStem, "zh") \notin NamesOf(scrape.source_folder)
    /\ File(SubtitleName(DestVideoStem, "chs"),
            [folder |-> "source", name |-> SubtitleName(SourceStem, "zh")])
           \in scrape.dest_folder

\* the contents of the files of the two folders
Contents(folder) == {f.content : f \in folder}

\* C39: the relocation of the subtitles overwrites and removes no file:
\* every file of the destination folder keeps its content, the content of
\* every file of the source folder is still in one of the folders, and a
\* subtitle whose new name was taken is where it was.
C39_NoFileOverwritten ==
    /\ \A f \in scrape.before_dest : f \in scrape.dest_folder
    /\ Contents(scrape.before_source)
           \subseteq Contents(scrape.source_folder) \cup Contents(scrape.dest_folder)
    /\ \A name \in scrape.taken : Original("source", name) \in scrape.source_folder

\* The rename within the source folder overwrites nothing: no content of
\* the source folder is lost while the subtitles stay in one folder, and a
\* subtitle whose new name is taken there keeps its name.
RenameKeepsExistingFiles ==
    /\ scrape.same_folder =>
           /\ Contents(scrape.source_folder) = Contents(scrape.before_source)
           /\ \A name \in scrape.taken :
                  Original("source", name) \in scrape.source_folder
    /\ Contents(scrape.before_source) \ Contents(scrape.source_folder)
           \subseteq {[folder |-> "source", name |-> name] :
                         name \in {n \in SubtitleNames : SubtitleMatched(n)}}


\* ------------------------------------------------------------------
\* a job that is marked cancelled while its id waits in the queue

\* a caller's update_job_status(job_id, ManualJobStatus.CANCELLED) for a
\* pending job whose id is still in the queue
CancelJob(job_id) ==
    /\ events < MaxEvents
    /\ rows[job_id] # NoRow
    /\ rows[job_id].status = PENDING
    /\ job_id \in Range(queue)
    /\ events' = events + 1
    /\ rows' = update_job_status(rows, job_id, CANCELLED, None, None, None, None,
                                 NoText)
    /\ UNCHANGED <<nextId, queue, worker_task, workers, children, backlog,
                   fs, clock, taken, scrape, raised>>

NextCancel ==
    \/ Next
    \/ \E job_id \in JobIds : CancelJob(job_id)

SpecCancel == Init /\ [][NextCancel]_vars

IsCancelled(row) == row # NoRow /\ row.status = CANCELLED

\* C40: a job whose row was deleted or marked cancelled while its id was
\* in the queue is not executed when the worker takes the id: the worker
\* that finds the row gone does not go on to mark it running, a cancelled
\* row keeps its status, and no child scrape task is created for it.
C40_GoneJobNotExecuted ==
    [][\A job_id \in JobIds :
          /\ IsCancelled(rows[job_id]) =>
                 /\ rows'[job_id] = rows[job_id] \/ rows'[job_id] = NoRow
                 /\ ChildPaths(job_id)' = ChildPaths(job_id)
          /\ \A i \in WorkerIds :
                 (/\ workers[i].pc = "load"
                  /\ workers[i].job_id = job_id
                  /\ rows[job_id] = NoRow) =>
                     /\ workers'[i].pc # "mark"
                     /\ rows'[job_id] = NoRow
                     /\ ChildPaths(job_id)' = ChildPaths(job_id)]_vars

\* A job whose row is deleted before the worker loads it is not executed:
\* the row stays absent and no child scrape task is created for it.
DeletedJobNotExecuted ==
    [][\A job_id \in JobIds, i \in WorkerIds :
          (/\ workers[i].pc = "load"
           /\ workers[i].job_id = job_id
           /\ rows[job_id] = NoRow) =>
              /\ workers'[i].pc # "mark"
              /\ rows'[job_id] = NoRow
              /\ ChildPaths(job_id)' = ChildPaths(job_id)]_vars

=============================================================================
